---- MODULE Spec2Model ----
(***************************************************************************)
(* Model of the content-engine topic review workflow                       *)
(* (backend/src/cli/reviewers/topic_reviewer.py) and of the LLM cost guard *)
(* of the scoring job (backend/src/jobs/topic_scoring_job.py).             *)
(*                                                                         *)
(* The document store holds, per topic, the one field the workflow owns    *)
(* (status).  Store calls, prompts and LLM calls are the environment: the  *)
(* outcome of each is an input of the action that makes the call.  Money   *)
(* is counted in units of 0.0001 USD, so that the estimate 0.002 is 20 and *)
(* a ceiling of 0.01 is 100.                                               *)
(*                                                                         *)
(* Three more specifications share the module: SpecScoring, the scoring    *)
(* service (backend/src/content/scoring_service.py) called with every kind *)
(* of LLM reply, cache content and weight vector; SpecVelocity, its        *)
(* calculate_velocity on lists of peers; SpecStore, topic_candidates as    *)
(* whole documents written by save_topics, the reviewer and                *)
(* ReviewService.update_topic_status.  SpecRecency calls calculate_recency *)
(* on topics of every age, with its result as the double it is;            *)
(* SpecIngest calls filter_duplicates and _generate_topic_id of the        *)
(* ingestion service (backend/src/content/ingestion_service.py,            *)
(* backend/src/content/processing/deduplication.py) on lists of raw        *)
(* topics, titles being sequences of characters.                           *)
(*                                                                         *)
(* SpecResume runs review sessions one after another, each resumed or not  *)
(* from a session file; SpecLong is one session over a batch longer than a *)
(* page; SpecSave runs the batch writers save_topics and save_scores and   *)
(* the join of _fetch_scores over topic_scores; SpecTracker is             *)
(* track_job_run (backend/src/jobs/job_tracker.py).                        *)
(***************************************************************************)
EXTENDS Integers, Sequences, FiniteSets, TLC

\* ------------------------------------------------------------------ bounds
NumTopics   == 2    \* topic documents in the store
MaxOther    == 1    \* status writes by actors other than this reviewer
MaxBatch    == 10   \* largest batch handed to score_topics

\* ------------------------------------------------------- program constants
max_retries              == 3      \* topic_reviewer.py:335
per_page                 == 10     \* topic_reviewer.py:113
AutoSaveEvery            == 10     \* topic_reviewer.py:161
estimated_cost_per_topic == 20     \* topic_scoring_job.py:132 (0.002 USD)
DefaultMaxCost           == 10000  \* config.py:24 (1.0 USD)

TopicIds  == 1..NumTopics
Statuses  == {"pending", "approved", "rejected", "deferred"}
None      == "none"

Min(a, b) == IF a < b THEN a ELSE b

\* _review_topic, line 310: the action key to the new status
NewStatus == [a |-> "approved", r |-> "rejected", d |-> "deferred"]

\* __init__, line 52
ZeroStats == [approved |-> 0, rejected |-> 0, deferred |-> 0, skipped |-> 0]

VARIABLES
    store,          \* topic_candidates: topic id -> persisted status
    audit,          \* audit_events: the append-only ledger, oldest first
    session_file,   \* .review_session.json: <<>> if absent, else <<data>>
    stats,          \* TopicReviewer.stats
    processed_ids,  \* TopicReviewer.processed_ids
    last_action,    \* TopicReviewer.last_action, NoAction for None
    loaded_ids,     \* processed ids read from the session file at start
    topics,         \* the batch of review_topics: records [id, status]
    page,           \* review_topics local
    current_idx,    \* review_topics local
    pc,             \* "new" | "loop" | "ended"
    exit,           \* how review_topics ended
    last,           \* what the last handler did (observation only)
    others,         \* writes by other actors so far
    job,            \* state of one TopicScoringJob.score_topics call
    svc,            \* a ScoringService, its clock and what its last call did
    db,             \* topic_candidates as whole documents, and their writers
    ing,            \* the ingestion service: the store it reads, its last call
    sess,           \* the review sessions run one after another, and the
                    \* session file kept under another name
    tracker,        \* job_runs and the track_job_run block under way
    saves           \* topic_scores and the save call under way

vars == <<store, audit, session_file, stats, processed_ids, last_action,
          loaded_ids, topics, page, current_idx, pc, exit, last, others, job,
          svc, db, ing, sess, tracker, saves>>

reviewerVars == <<store, audit, session_file, stats, processed_ids,
                  last_action, loaded_ids, topics, page, current_idx, pc,
                  exit, last, others>>

\* last_action = None (line 54)
NoAction == [topic_id |-> 0, old_status |-> None, new_status |-> None,
             action |-> None]

\* The observation of a handler that made no transition.
NoObs == [op |-> "none", topic |-> 0, new |-> None, cur |-> None,
          attempts |-> 0, fails |-> 0, delays |-> <<>>, prompts |-> 0,
          confirmed |-> FALSE, declined |-> FALSE, wrote |-> FALSE,
          audited |-> FALSE, audit_failed |-> FALSE, raised |-> FALSE,
          saved |-> FALSE]

\* ------------------------------------------------- environment's outcomes
\* One attempt of the status write (lines 338-358):
\*   "ok"        get_document and set_document succeed, and the operator
\*               answers yes if the override question is asked
\*   "get_fail"  get_document raises or finds nothing (ValueError, line 343)
\*   "decline"   the override question is asked and the answer is no
\*   "set_fail"  as "ok", but set_document raises
\* Where no question is asked, "get_fail" and "set_fail" are the same run
\* of the code, and "set_fail" stands for both.
StoreOutcomes == {"ok", "get_fail", "decline", "set_fail"}
\* The audit part (lines 369-417): succeeds, or the score query (line 371)
\* or add_document (line 415) raises.
AuditOutcomes == {"ok", "fail"}
\* _fetch_topics: ordered query succeeds, falls back, or both queries raise.
FetchOutcomes == {"ok", "fallback", "fail"}
\* _undo_last_action: both store calls succeed, get_document or
\* set_document raises, or get_document finds nothing.
UndoOutcomes  == {"ok", "fail", "not_found"}

\* --------------------------------------------------- _update_topic_status
\* Backoff with the exponent stuck at 0: the delay is not doubled.
Backoff_fixed(attempt) == 1 * (2 ^ 0)

\* line 364: asyncio.sleep(1.0 * (2**attempt))
Backoff(attempt) == 1 * (2 ^ attempt)

\* line 346: the override question is asked
NeedsOverride(current_status, status) ==
    current_status # "pending" /\ status # "deferred"

\* HumanAction with the approved topic filed under rejected_ids.
HumanAction_swapped(topic_id, status) ==
    [selected_ids |-> IF status = "rejected" THEN <<topic_id>> ELSE <<>>,
     rejected_ids |-> IF status = "approved" THEN <<topic_id>> ELSE <<>>,
     deferred_ids |-> IF status = "deferred" THEN <<topic_id>> ELSE <<>>]

\* lines 394-398
HumanAction(topic_id, status) ==
    [selected_ids |-> IF status = "approved" THEN <<topic_id>> ELSE <<>>,
     rejected_ids |-> IF status = "rejected" THEN <<topic_id>> ELSE <<>>,
     deferred_ids |-> IF status = "deferred" THEN <<topic_id>> ELSE <<>>]

\* lines 404-413 (id, timestamps, score payload, reason and notes left out)
AuditEvent(topic_id, status) ==
    [stage        |-> "topic_selection",
     topic_id     |-> topic_id,
     human_action |-> HumanAction(topic_id, status),
     actor        |-> "cli-user"]

\* lines 336-366: the retry loop, from attempt number `attempt` (0-based).
\* acc is the observation so far plus the store; outcomes[i] is what the
\* store and the operator do on the i-th attempt.
RECURSIVE StatusWrite(_, _, _, _, _)
StatusWrite(topic_id, status, outcomes, attempt, acc) ==
    LET o              == outcomes[attempt + 1]
        got            == o # "get_fail"
        current_status == acc.store[topic_id]
        asked          == got /\ NeedsOverride(current_status, status)
        acc1 == [acc EXCEPT !.attempts = attempt + 1,
                            !.prompts  = @ + (IF asked THEN 1 ELSE 0),
                            !.cur      = IF got THEN current_status ELSE @]
    IN  IF asked /\ o = "decline"
        THEN [acc1 EXCEPT !.declined = TRUE]                   \* line 353
        ELSE IF o = "ok"
        THEN [acc1 EXCEPT !.wrote = TRUE, !.confirmed = asked, \* 356-358
                          !.store = [@ EXCEPT ![topic_id] = status]]
        ELSE IF attempt < max_retries - 1
        THEN StatusWrite(topic_id, status, outcomes, attempt + 1,
                 [acc1 EXCEPT !.fails  = @ + 1,
                              !.delays = Append(@, Backoff(attempt))])
        ELSE [acc1 EXCEPT !.fails = @ + 1, !.raised = TRUE]    \* line 366

\* CreateAuditEvent writing the event once per store call of the audit part.
CreateAuditEvent_twice(a, topic_id, status, auditOutcome) ==
    IF auditOutcome = "ok"
    THEN a \o <<AuditEvent(topic_id, status), AuditEvent(topic_id, status)>>
    ELSE a

\* lines 368-417: the audit part; a failure is logged and swallowed
CreateAuditEvent(a, topic_id, status, auditOutcome) ==
    IF auditOutcome = "ok" THEN Append(a, AuditEvent(topic_id, status)) ELSE a

\* UpdateTopicStatus without the try/except of lines 369 and 416: a failure
\* of the audit part reaches the caller.
UpdateTopicStatus_unguarded(s, a, topic_id, status, outcomes, auditOutcome) ==
    LET start == [NoObs EXCEPT !.op = "decide", !.topic = topic_id,
                               !.new = status]
        w == StatusWrite(topic_id, status, outcomes, 0,
                         start @@ [store |-> s])
    IN  IF w.raised \/ w.declined
        THEN w @@ [audit |-> a]
        ELSE [w EXCEPT !.audited      = (auditOutcome = "ok"),
                       !.audit_failed = (auditOutcome # "ok"),
                       !.raised       = (auditOutcome # "ok")]
             @@ [audit |-> CreateAuditEvent(a, topic_id, status, auditOutcome)]

\* lines 330-417: the whole of _update_topic_status.  The result carries the
\* new store and ledger and the observation of what happened.
UpdateTopicStatus(s, a, topic_id, status, outcomes, auditOutcome) ==
    LET start == [NoObs EXCEPT !.op = "decide", !.topic = topic_id,
                               !.new = status]
        w == StatusWrite(topic_id, status, outcomes, 0,
                         start @@ [store |-> s])
    IN  IF w.raised \/ w.declined
        THEN w @@ [audit |-> a]
        ELSE [w EXCEPT !.audited      = (auditOutcome = "ok"),
                       !.audit_failed = (auditOutcome # "ok")]
             @@ [audit |-> CreateAuditEvent(a, topic_id, status, auditOutcome)]

\* The observation part of a result of UpdateTopicStatus.
Obs(r) == [f \in DOMAIN NoObs |-> r[f]]

\* ------------------------------------------------------------ the session
\* lines 465-470
SessionData(p, st, la) ==
    [workflow |-> "topics", processed_ids |-> p, stats |-> st,
     last_action |-> la]

\* firestore query of topic_candidates by status, created_at DESCENDING
\* (lines 181-200); a topic's id is its creation time.
RECURSIVE QueryByStatus(_, _, _)
QueryByStatus(s, status, i) ==
    IF i = 0 THEN <<>>
    ELSE (IF s[i] = status THEN <<[id |-> i, status |-> s[i]]>> ELSE <<>>)
         \o QueryByStatus(s, status, i - 1)

Take(seq, n) == SubSeq(seq, 1, Min(n, Len(seq)))

\* lines 174-221 (every stored topic has a title)
FetchTopics(s, status, limit) ==
    Take(Take(QueryByStatus(s, status, NumTopics), limit * 2), limit)

\* FilterProcessed with the filter of line 85 left out.
FilterProcessed_none(ts, processed) == ts

\* line 85
FilterProcessed(ts, processed) ==
    SelectSeq(ts, LAMBDA t : t.id \notin processed)

Ids(ts) == {ts[i].id : i \in 1..Len(ts)}

\* ----------------------------------------- TopicScoringJob.score_topics
\* settings.max_llm_cost_per_run values tried: 0.01 USD, 0.015 USD, default
Ceilings == {100, 150, DefaultMaxCost}
\* total_cost_usd reported by one score_topic_async call
Costs == {0, 60}
\* score_topic / score_topic_async: returns a well-formed result, returns a
\* result that fails validation (lines 166-184), or raises
ScoreOutcomes == {"ok", "invalid", "raise"}

\* line 112: the values uuid.uuid4() may give a run
RunIds == {1, 2}

\* before score_topics is called.  called: the topics handed to the scoring
\* service, and peers: the all_topics handed over with each; scored: those
\* for which it returned a well-formed result; scores: the list
\* score_topics returns, and run_ids: the run_id of each of its entries.
IdleJob == [pc |-> "idle", n |-> 0, ceiling |-> 0, use_llm |-> FALSE,
            i |-> 0, scores |-> <<>>, called |-> <<>>, failures |-> <<>>,
            scored |-> <<>>, total_cost |-> 0, stopped |-> None,
            raised |-> FALSE, run_id |-> 0, peers |-> <<>>,
            run_ids |-> <<>>]

\* EstimatedTotal counting the next topic only, not the rest of the batch.
EstimatedTotal_next(total_cost, n, scored) ==
    total_cost + estimated_cost_per_topic

\* EstimatedTotal without the estimate for the topics still to score.
EstimatedTotal_spent(total_cost, n, scored) == total_cost

\* lines 133-135
EstimatedTotal(total_cost, n, scored) ==
    total_cost + estimated_cost_per_topic * (n - scored)

\* lines 109-124: score_topics is called with topics 1..n; line 112 draws
\* the run_id unless the list is empty (line 110)
BeginScoring(n, ceiling, use_llm, run_id) ==
    [IdleJob EXCEPT !.pc = IF n = 0 THEN "returned" ELSE "loop",
                    !.n = n, !.ceiling = ceiling, !.use_llm = use_llm,
                    !.i = 1, !.run_id = IF n = 0 THEN 0 ELSE run_id]

\* AllTopics handing over only the topics scored so far.
AllTopics_scored(j) == j.scores

\* lines 146 and 163: all_topics=topics, the list score_topics was given
AllTopics(j) == [k \in 1..j.n |-> k]

\* lines 187-208: the TopicScore appended at line 210 carries the run_id
AppendScore(j) ==
    [j EXCEPT !.scores = Append(@, j.i), !.run_ids = Append(@, j.run_id)]

\* lines 219-226: the loop is left, by break or by exhaustion
Return(j, why) == [j EXCEPT !.pc = "returned", !.stopped = why]

\* line 126: the next topic, or the end of the loop
NextTopic(j) ==
    IF j.i < j.n THEN [j EXCEPT !.i = @ + 1] ELSE Return(j, "end")

\* ScoreIteration without the comparison of lines 155-161 after the call.
ScoreIteration_unchecked(j, outcome, cost) ==
    IF j.use_llm /\ EstimatedTotal(j.total_cost, j.n, Len(j.scores)) > j.ceiling
    THEN Return(j, "pre")
    ELSE LET c  == IF j.use_llm /\ outcome # "raise" THEN cost ELSE 0
             j1 == [j EXCEPT !.called = Append(@, j.i),
                             !.peers = Append(@, AllTopics(j)),
                             !.scored = IF outcome = "ok"
                                        THEN Append(@, j.i) ELSE @,
                             !.total_cost = @ + c]
         IN  IF outcome = "ok"
             THEN NextTopic(AppendScore(j1))
             ELSE NextTopic([j1 EXCEPT !.failures = Append(@, j.i)])

\* lines 126-217: one iteration of the loop, for topic j.i
ScoreIteration(j, outcome, cost) ==
    IF j.use_llm /\ EstimatedTotal(j.total_cost, j.n, Len(j.scores)) > j.ceiling
    THEN Return(j, "pre")                                      \* line 144
    ELSE LET c  == IF j.use_llm /\ outcome # "raise" THEN cost ELSE 0
             j1 == [j EXCEPT !.called = Append(@, j.i),
                             !.peers = Append(@, AllTopics(j)),
                             !.scored = IF outcome = "ok"      \* 146, 163
                                        THEN Append(@, j.i) ELSE @,
                             !.total_cost = @ + c]             \* line 152
         IN  IF outcome = "raise"
             THEN NextTopic([j1 EXCEPT !.failures = Append(@, j.i)])
             ELSE IF j.use_llm /\ j1.total_cost > j.ceiling
             THEN Return(j1, "post")                           \* line 161
             ELSE IF outcome = "invalid"
             THEN NextTopic([j1 EXCEPT !.failures = Append(@, j.i)])
             ELSE NextTopic(AppendScore(j1))

\* ------------------------------------------------------- ScoringService
\* Scores, weights and penalties are counted in hundredths (1.0 is 100,
\* -0.5 is -50); a composite score in units of 0.0001 (1.0 is 10000).
Max(a, b) == IF a > b THEN a ELSE b

\* max(lo, min(hi, x)), as lines 191, 409, 532 and 645 write it
Clamp(lo, hi, x) == Max(lo, Min(hi, x))

\* Floor division by a divisor of either sign.
Div(a, b) == IF b > 0 THEN a \div b ELSE (0 - a) \div (0 - b)

\* A JSON value as the service looks at it: absent from the object, a
\* string, a boolean (val 1 for true) or a number.
Absent   == [type |-> "absent", val |-> 0]
JStr     == [type |-> "str", val |-> 0]
JBool(b) == [type |-> "bool", val |-> IF b THEN 1 ELSE 0]
JNum(n)  == [type |-> "num", val |-> n]

\* isinstance(x, (int, float)), lines 405 and 528: bool is a subclass of int
IsNumber(x) == x.type \in {"num", "bool"}

\* float(x) in hundredths, lines 409, 411, 532 and 534: True is 1.0
NumberOf(x) == IF x.type = "bool" THEN 100 * x.val ELSE x.val

\* What one LLM call can come to (lines 366-399 and 488-521): no service
\* (disabled or not constructible), chat_with_cost_tracking raises, the
\* content is not JSON, or a JSON object whose value field is v.
Unavailable == [kind |-> "unavailable", v |-> Absent]
ChatRaises  == [kind |-> "exception", v |-> Absent]
Malformed   == [kind |-> "malformed", v |-> Absent]
Json(v)     == [kind |-> "json", v |-> v]

\* cost_usd of one successful chat call, in units of 0.0001 USD
CallCost == 6

\* "score" values an audience-fit reply can carry
FitValues ==
    {Absent, JStr, JBool(TRUE), JNum(0 - 20), JNum(70), JNum(150)}

FitReplies ==
    {Unavailable, ChatRaises, Malformed} \cup {Json(v) : v \in FitValues}

\* "penalty" values an integrity reply can carry
PenaltyValues ==
    {Absent, JStr, JBool(TRUE), JNum(0 - 90), JNum(0 - 20), JNum(30)}

PenaltyReplies ==
    {Unavailable, ChatRaises, Malformed} \cup {Json(v) : v \in PenaltyValues}

\* The (None, None, None) of lines 368, 417, 490 and 544.
NoLLM == [ok |-> FALSE, value |-> 0, cost |-> 0, called |-> FALSE]

\* lines 366-417: _calculate_audience_fit_llm.  called: a chat call was made
CalculateAudienceFitLLM(reply) ==
    IF reply.kind = "unavailable" THEN NoLLM                   \* line 368
    ELSE IF reply.kind # "json" \/ ~IsNumber(reply.v)          \* 399, 406
    THEN [NoLLM EXCEPT !.called = TRUE]                        \* line 417
    ELSE [ok |-> TRUE, value |-> Clamp(0, 100, NumberOf(reply.v)), \* 407-411
          cost |-> CallCost, called |-> TRUE]

\* The topics handed to the service.  matches: how many TRENDY_KEYWORDS the
\* lower-cased title contains (line 334); entities: len(topic.entities);
\* score and comments: the two engagement fields of raw_payload; age: hours
\* from created_at to now, negative for a timestamp in the future; dated:
\* created_at is not None.
TopicA == [id |-> 1, title |-> "ai startup funding", cluster |-> "ai-infra",
           matches |-> 3, entities |-> 2, platform |-> "reddit",
           score |-> 48, comments |-> 25, age |-> 0, dated |-> TRUE]
TopicB == [id |-> 2, title |-> "quarterly earnings", cluster |-> "unknown",
           matches |-> 0, entities |-> 0, platform |-> "rss",
           score |-> 0, comments |-> 0, age |-> 24, dated |-> TRUE]
TopicC == [id |-> 3, title |-> "tech trend series",
           cluster |-> "culture-music",
           matches |-> 6, entities |-> 7, platform |-> "reddit",
           score |-> 9, comments |-> 0, age |-> 48, dated |-> TRUE]
SampleTopics == {TopicA, TopicB, TopicC}

\* CLUSTER_AUDIENCE_SCORES (lines 46-51) and the default of line 330
ClusterScore(cluster) ==
    CASE cluster = "ai-infra" -> 90
      [] cluster = "business-socioeconomic" -> 85
      [] cluster = "culture-music" -> 70
      [] cluster = "applied-industry" -> 60
      [] OTHER -> 50

\* lines 318-352: _calculate_audience_fit_keyword, (score, reasoning)
CalculateAudienceFitKeyword(topic) ==
    [value |-> Min(100, ClusterScore(topic.cluster)
                        + Min(15, topic.matches * 3)
                        + Min(10, topic.entities * 2)),
     reasoning |-> <<"", "keyword">>]

\* ---- the scoring cache inside the stored topic's raw_payload
CacheHours   == 24     \* line 140
HoursPerTick == 12     \* the model's clock moves in steps of 12 hours
MaxTicks     == 2      \* steps the clock makes

\* line 119: md5 of the title cut to 8 hex digits; the titles of the model
\* have distinct digests.
TitleHash(title) == <<"md5", title>>

\* lines 119-120
CacheKey(topic, cache_type) == <<cache_type, topic.id, TitleHash(topic.title)>>

\* No entry under a key.
NoEntry == [present |-> FALSE, parses |-> FALSE, at |-> 0,
            result |-> [present |-> FALSE, v |-> Absent]]

\* An entry: cached_at (an hour, if it parses as an aware ISO time) and
\* "result", whose "score" or "penalty" is v.
Entry(parses, at, v) ==
    [present |-> TRUE, parses |-> parses, at |-> at,
     result |-> [present |-> TRUE, v |-> v]]

\* lines 122-143: _get_cached_result at hour now; c is _scoring_cache, a
\* function from keys to entries
GetCachedResult(c, topic, cache_type, now) ==
    LET key    == CacheKey(topic, cache_type)
        cached == IF key \in DOMAIN c THEN c[key] ELSE NoEntry
    IN  IF ~cached.present
        THEN [raised |-> FALSE, hit |-> FALSE, v |-> Absent]   \* line 143
        ELSE IF ~cached.parses
        THEN [raised |-> TRUE, hit |-> FALSE, v |-> Absent]    \* line 138
        ELSE IF now - cached.at < CacheHours /\ cached.result.present
        THEN [raised |-> FALSE, hit |-> TRUE, v |-> cached.result.v]
        ELSE [raised |-> FALSE, hit |-> FALSE, v |-> Absent]

\* A miss, for a call with use_cache = False.
NoLookup == [raised |-> FALSE, hit |-> FALSE, v |-> Absent]

\* What a component calculation hands back: the value (a JSON value, since
\* a cached one is passed on as found), the reasoning as <<prefix, body>>,
\* cost_info (has_cost FALSE for None) and the chat calls it made.
Component(v, prefix, body, llm) ==
    [value |-> v, reasoning |-> <<prefix, body>>,
     has_cost |-> llm.ok, cost |-> IF llm.ok THEN llm.cost ELSE 0,
     calls |-> IF llm.called THEN 1 ELSE 0, raised |-> FALSE]

\* CalculateAudienceFitAsync taking whatever number the reply carries, and
\* 0.5 for none, without the checks of lines 405-407.
CalculateAudienceFitAsync_trusting(c, topic, use_cache, reply, now) ==
    IF reply.kind = "json"
    THEN Component(JNum(IF IsNumber(reply.v) THEN NumberOf(reply.v) ELSE 50),
                   "LLM: ", "llm",
                   [ok |-> TRUE, value |-> 0, cost |-> CallCost,
                    called |-> TRUE])
    ELSE Component(JNum(CalculateAudienceFitKeyword(topic).value),
                   "Keyword-based: ", "keyword", NoLLM)

\* lines 438-473: calculate_audience_fit_async
CalculateAudienceFitAsync(c, topic, use_cache, reply, now) ==
    LET g   == IF use_cache
               THEN GetCachedResult(c, topic, "audience_fit", now)
               ELSE NoLookup
        llm == CalculateAudienceFitLLM(reply)
        kw  == CalculateAudienceFitKeyword(topic)
    IN  IF g.raised                                            \* 469-473
        THEN Component(JNum(kw.value), "Error fallback: ", kw.reasoning[2],
                       NoLLM)
        ELSE IF g.hit                                          \* line 456
        THEN Component(IF g.v = Absent THEN JNum(50) ELSE g.v,
                       "", "cached", NoLLM)
        ELSE IF llm.ok                                         \* line 463
        THEN Component(JNum(llm.value), "LLM: ", "llm", llm)
        ELSE Component(JNum(kw.value), "Keyword-based: ",      \* 466-467
                       kw.reasoning[2], llm)

\* lines 419-436: calculate_audience_fit
CalculateAudienceFit(topic) ==
    LET kw == CalculateAudienceFitKeyword(topic)
    IN  Component(JNum(kw.value), kw.reasoning[1], kw.reasoning[2], NoLLM)

\* lines 488-544: _calculate_integrity_penalty_llm; a reply without a
\* "penalty" counts as 0.0 (line 524)
CalculateIntegrityPenaltyLLM(reply) ==
    LET penalty == IF reply.v = Absent THEN JNum(0) ELSE reply.v
    IN  IF reply.kind = "unavailable" THEN NoLLM               \* line 490
        ELSE IF reply.kind # "json" \/ ~IsNumber(penalty)      \* 521, 529
        THEN [NoLLM EXCEPT !.called = TRUE]                    \* line 544
        ELSE [ok |-> TRUE, value |-> Clamp(-50, 0, NumberOf(penalty)),
              cost |-> CallCost, called |-> TRUE]              \* 530-534

\* lines 561-598: calculate_integrity_penalty_async
CalculateIntegrityPenaltyAsync(c, topic, use_cache, reply, now) ==
    LET g   == IF use_cache
               THEN GetCachedResult(c, topic, "integrity", now)
               ELSE NoLookup
        llm == CalculateIntegrityPenaltyLLM(reply)
    IN  IF g.raised                                            \* 596-598
        THEN Component(JNum(0), "Error fallback: ", "error", NoLLM)
        ELSE IF g.hit                                          \* 579-583
        THEN Component(IF g.v = Absent THEN JNum(0) ELSE g.v,
                       "", "cached", NoLLM)
        ELSE IF llm.ok                                         \* line 591
        THEN Component(JNum(llm.value), "LLM: ", "llm", llm)
        ELSE Component(JNum(0), "", "none", llm)               \* line 594

\* lines 546-559: calculate_integrity_penalty
CalculateIntegrityPenalty(topic) == Component(JNum(0), "", "sync", NoLLM)

\* ---- recency and velocity
\* A float that is a power of two: 2^(-e), or 0.0.  math.exp returns 0.0
\* for a result below the smallest double, 2^(-1074).
DoubleMinExp == 1074
Pow2Neg(e) ==
    [zero |-> e > DoubleMinExp, e |-> IF e > DoubleMinExp THEN 0 ELSE e]

\* a > b for two such floats
FloatGreater(a, b) == ~a.zero /\ (b.zero \/ a.e < b.e)

\* lines 160-183: hours_old; no timestamp and a timestamp in the future
\* both count as now
HoursOld(topic) == IF ~topic.dated \/ topic.age <= 0 THEN 0 ELSE topic.age

\* lines 185-191: exp(-ln(2)/24 * hours_old) as a float, for an age that
\* is a whole number of days
RecencyFloat(topic) == Pow2Neg(HoursOld(topic) \div 24)

\* lines 158-210: calculate_recency in hundredths, as the composite score
\* of the model takes it
CalculateRecency(topic) ==
    LET recency == RecencyFloat(topic)
    IN  IF recency.zero \/ recency.e > 7 THEN 0
        ELSE Clamp(0, 100, 100 \div (2 ^ recency.e))

\* lines 212-247: extract_engagement (comments are never negative)
ExtractEngagement(topic) ==
    IF topic.platform \in {"reddit", "hackernews"}
    THEN Max(0, topic.score + topic.comments \div 10)
    ELSE 0

\* PLATFORM_MAX_ENGAGEMENT (lines 38-43) and the default of line 279
PlatformMax(platform) ==
    CASE platform = "reddit" -> 1000
      [] platform = "hackernews" -> 500
      [] platform \in {"rss", "manual"} -> 0
      [] OTHER -> 100

\* math.log10 in units of 0.0001, for the arguments the model meets
Log10(n) ==
    CASE n = 10 -> 10000
      [] n = 51 -> 17076
      [] n = 100 -> 20000
      [] n = 501 -> 26998
      [] n = 1001 -> 30004

\* lines 279-286 and 301-312: log normalisation, in units of 0.0001
LogNormalised(engagement, platform) ==
    IF PlatformMax(platform) <= 0 THEN 0
    ELSE Min(10000, (Log10(engagement + 1) * 10000)
                    \div Log10(PlatformMax(platform) + 1))

\* line 276
PlatformTopics(all_topics, platform) ==
    SelectSeq(all_topics, LAMBDA t : t.platform = platform)

\* Rank counting the values at or below the topic's own.
Rank_inclusive(platform_topics, engagement) ==
    Cardinality({i \in 1..Len(platform_topics) :
                    ExtractEngagement(platform_topics[i]) <= engagement})

\* line 293: the number of peers with less engagement
Rank(platform_topics, engagement) ==
    Cardinality({i \in 1..Len(platform_topics) :
                    ExtractEngagement(platform_topics[i]) < engagement})

\* lines 266-316: calculate_velocity, in units of 0.0001; all_topics is
\* <<>> for None
CalculateVelocity(topic, all_topics) ==
    LET engagement      == ExtractEngagement(topic)
        platform_topics == PlatformTopics(all_topics, topic.platform)
    IN  IF engagement <= 0 THEN 0                              \* line 272
        ELSE IF Len(platform_topics) > 1                       \* 287-298
        THEN (Rank(platform_topics, engagement) * 10000)
             \div (Len(platform_topics) - 1)
        ELSE LogNormalised(engagement, topic.platform)

\* ---- the composite score
WeightKeys == {"recency", "velocity", "audience_fit"}

\* DEFAULT_WEIGHTS, lines 30-34
DEFAULT_WEIGHTS == [recency |-> 30, velocity |-> 40, audience_fit |-> 30]

\* self.weights.get(k, 0.0), lines 622 and 632
WeightOf(weights, k) == IF k \in DOMAIN weights THEN weights[k] ELSE 0

\* line 622
WeightSum(weights) ==
    WeightOf(weights, "recency") + WeightOf(weights, "velocity")
    + WeightOf(weights, "audience_fit")

\* line 626: abs(weight_sum - 1.0) > 0.01
NeedsNormalising(weights) ==
    WeightSum(weights) - 100 > 1 \/ 100 - WeightSum(weights) > 1

\* lines 631-632, rounded to hundredths
Normalised(weights) ==
    [k \in WeightKeys |-> Div(100 * WeightOf(weights, k), WeightSum(weights))]

\* CalculateCompositeScore normalising self.weights itself, not a copy.
CalculateCompositeScore_inplace(weights, recency, velocity, audience_fit, integrity_penalty) ==
    LET dot == WeightOf(weights, "recency") * recency
               + WeightOf(weights, "velocity") * velocity
               + WeightOf(weights, "audience_fit") * audience_fit
    IN  IF NeedsNormalising(weights) /\ WeightSum(weights) = 0
        THEN [raised |-> TRUE, score |-> 0, normalised |-> FALSE,
              weights |-> weights]
        ELSE IF NeedsNormalising(weights)
        THEN [raised |-> FALSE, normalised |-> TRUE,
              weights |-> Normalised(weights),
              score |-> Clamp(0, 10000, Div(dot, WeightSum(weights))
                                        + integrity_penalty)]
        ELSE IF WeightKeys \ DOMAIN weights # {}
        THEN [raised |-> TRUE, score |-> 0, normalised |-> FALSE,
              weights |-> weights]
        ELSE [raised |-> FALSE, normalised |-> FALSE, weights |-> weights,
              score |-> Clamp(0, 10000, dot \div 100 + integrity_penalty)]

\* lines 600-645: calculate_composite_score.  The components and the score
\* are in units of 0.0001; weights: self.weights after the call.
CalculateCompositeScore(weights, recency, velocity, audience_fit, integrity_penalty) ==
    LET dot == WeightOf(weights, "recency") * recency
               + WeightOf(weights, "velocity") * velocity
               + WeightOf(weights, "audience_fit") * audience_fit
    IN  IF NeedsNormalising(weights) /\ WeightSum(weights) = 0
        THEN [raised |-> TRUE, score |-> 0, normalised |-> FALSE, \* 632
              weights |-> weights]
        ELSE IF NeedsNormalising(weights)                      \* 631-645
        THEN [raised |-> FALSE, normalised |-> TRUE, weights |-> weights,
              score |-> Clamp(0, 10000, Div(dot, WeightSum(weights))
                                        + integrity_penalty)]
        ELSE IF WeightKeys \ DOMAIN weights # {}               \* 636-638
        THEN [raised |-> TRUE, score |-> 0, normalised |-> FALSE,
              weights |-> weights]
        ELSE [raised |-> FALSE, normalised |-> FALSE, weights |-> weights,
              score |-> Clamp(0, 10000, dot \div 100 + integrity_penalty)]

\* The result of score_topic and score_topic_async: the dictionary of lines
\* 671-686 and 737-761, or an exception.  A component that is no number
\* makes the arithmetic of lines 635-642 raise.
ScoreResult(weights, recency, velocity, fit, penalty) ==
    LET numbers == IsNumber(fit.value) /\ IsNumber(penalty.value)
        c == IF numbers
             THEN CalculateCompositeScore(weights, recency * 100, velocity,
                      NumberOf(fit.value) * 100,
                      NumberOf(penalty.value) * 100)
             ELSE [raised |-> TRUE, score |-> 0, normalised |-> FALSE,
                   weights |-> weights]
    IN  [raised |-> c.raised, score |-> c.score, normalised |-> c.normalised,
         weights |-> c.weights, fit |-> fit, penalty |-> penalty,
         calls |-> fit.calls + penalty.calls,
         total_cost |-> fit.cost + penalty.cost]

\* lines 647-686: score_topic
ScoreTopic(weights, topic, all_topics) ==
    ScoreResult(weights, CalculateRecency(topic),
                CalculateVelocity(topic, all_topics),
                CalculateAudienceFit(topic), CalculateIntegrityPenalty(topic))

\* lines 688-761: score_topic_async; enabled: settings.enable_llm_scoring
ScoreTopicAsync(weights, c, topic, all_topics, use_llm, enabled, fitReply, penaltyReply, now) ==
    IF use_llm /\ enabled
    THEN ScoreResult(weights, CalculateRecency(topic),
             CalculateVelocity(topic, all_topics),
             CalculateAudienceFitAsync(c, topic, TRUE, fitReply, now),
             CalculateIntegrityPenaltyAsync(c, topic, TRUE, penaltyReply, now))
    ELSE ScoreTopic(weights, topic, all_topics)

\* ---- the service as a state machine
\* weight vectors a service is constructed with (line 89)
WeightVectors ==
    {DEFAULT_WEIGHTS,
     [recency |-> 0, velocity |-> 0, audience_fit |-> 0],
     [recency |-> 50, velocity |-> 50, audience_fit |-> 50],
     [recency |-> 0 - 50, velocity |-> 100, audience_fit |-> 50],
     [recency |-> 50, velocity |-> 50],
     [recency |-> 30, velocity |-> 30]}

\* _scoring_cache absent from raw_payload
EmptyCache == [k \in {} |-> NoEntry]

\* _scoring_cache with one entry for each cache type, both written at hour
\* `at` for `topic`
CacheOf(topic, parses, at, fit, penalty) ==
    [k \in {CacheKey(topic, "audience_fit"), CacheKey(topic, "integrity")} |->
        Entry(parses, at, IF k[1] = "audience_fit" THEN fit ELSE penalty)]

\* What raw_payload._scoring_cache of the stored TopicA can hold.  Nothing
\* in the repository writes it, so it is whatever the document's other
\* writers left: nothing, values in range, values out of range, a result
\* without its value, a cached_at that does not parse, or entries made
\* under an older title.
CachePayloads ==
    {EmptyCache,
     CacheOf(TopicA, TRUE, 0, JNum(60), JNum(0 - 20)),
     CacheOf(TopicA, TRUE, 0, JNum(150), JNum(0 - 90)),
     CacheOf(TopicA, TRUE, 0, Absent, Absent),
     CacheOf(TopicA, FALSE, 0, JNum(60), JNum(0 - 20)),
     CacheOf([TopicA EXCEPT !.title = "ai startup"], TRUE, 0,
             JNum(60), JNum(0 - 20))}

NoComponent == Component(Absent, "", "none", NoLLM)

NoResult == [raised |-> FALSE, score |-> 0, normalised |-> FALSE,
             weights |-> DEFAULT_WEIGHTS, fit |-> NoComponent,
             penalty |-> NoComponent, calls |-> 0, total_cost |-> 0,
             recency |-> Pow2Neg(0)]

\* No call made yet.  all_topics, reply (audience fit) and reply2
\* (integrity) are the inputs of the last call, at its hour, r its result;
\* llm: the call was to use the LLM and LLM scoring was enabled; earlier:
\* the topic and the result of the calculate_recency call before a
\* calculate_recency call.
NoCall == [op |-> "none", topic |-> TopicA, all_topics |-> <<>>,
           llm |-> FALSE, reply |-> Unavailable, reply2 |-> Unavailable,
           inputs |-> <<0, 0, 0, 0>>, at |-> 0, r |-> NoResult,
           earlier |-> <<>>]

\* lines 89-93: a service with the default weights; cache: the
\* _scoring_cache of the stored TopicA; now: the hour
IdleSvc == [weights |-> DEFAULT_WEIGHTS, cache |-> EmptyCache, now |-> 0,
            last |-> NoCall]

\* The cache a topic carries: only TopicA's payload has one.
CacheFor(topic) == IF topic.id = TopicA.id THEN svc.cache ELSE EmptyCache

\* ------------------------------------------- topic_candidates documents
\* A document is a function from the names of its fields; a topic's id
\* carries its title and timestamp (ingestion_service.py lines 125-128), so
\* both are written as the id.
NumRuns == 2     \* save_topics calls that can be under way at once

\* No document under an id (get_document returns None, line 74).
NoDoc == [f \in {} |-> None]

\* topic.to_firestore_dict() of the candidate ingestion run `run` makes for
\* `id` (ingestion_service.py lines 90-105): the payload, entities and
\* cluster are whatever that run fetched and extracted.
NewDoc(id, run) ==
    [status |-> "pending", title |-> id, source_platform |-> "reddit",
     raw_payload |-> run, entities |-> run, topic_cluster |-> "ai-infra",
     created_at |-> id]

\* firestore_service.py lines 79-87: doc_ref.set(data) without merge puts
\* data in the place of the document
SetDocument(docs, id, data) == [docs EXCEPT ![id] = data]

\* transaction.update(ref, data): the fields of data are written into the
\* document, which has to exist
UpdateDocument(docs, id, data) ==
    [docs EXCEPT ![id] =
        [f \in DOMAIN docs[id] \cup DOMAIN data |->
            IF f \in DOMAIN data THEN data[f] ELSE docs[id][f]]]

\* A save_topics call between two topics of its list.
IdleRun == [pc |-> "idle", id |-> 0]

\* What the last step on the store did: before is the document it found.
NoStep == [op |-> "none", id |-> 0, run |-> 0, transaction |-> FALSE,
           before |-> NoDoc, presented |-> <<>>]

\* docs: topic_candidates; scores: the latest composite score of each topic
\* in hundredths; runs: the save_topics calls.
EmptyDb == [docs   |-> [id \in TopicIds |-> NoDoc],
            scores |-> [id \in TopicIds |-> 0],
            runs   |-> [r \in 1..NumRuns |-> IdleRun],
            last   |-> NoStep]

\* ------------------------------------------------------------ ingestion
MaxExisting == 2   \* longest list of existing topics
MaxRaw      == 2   \* longest list of raw topics handed to filter_duplicates

\* A text is the sequence of its characters, so that lower() and strip()
\* are computed.
LowerChar(c) == IF c = "A" THEN "a" ELSE IF c = "B" THEN "b" ELSE c

Lower(s) == [i \in 1..Len(s) |-> LowerChar(s[i])]

RECURSIVE LStrip(_)
LStrip(s) == IF s # <<>> /\ Head(s) = " " THEN LStrip(Tail(s)) ELSE s

RECURSIVE RStrip(_)
RStrip(s) ==
    IF s # <<>> /\ s[Len(s)] = " "
    THEN RStrip(SubSeq(s, 1, Len(s) - 1)) ELSE s

Strip(s) == RStrip(LStrip(s))

\* An optional value: None, or v.
Some(v) == [none |-> FALSE, v |-> v]
NoUrl   == [none |-> TRUE, v |-> ""]
NoTitle == [none |-> TRUE, v |-> <<>>]

\* sources/base.py lines 9-23: RawTopicData.  published_at is a datetime:
\* naive or aware (then in UTC), wall its clock reading in half seconds.
Raw(title, source_url, source_platform, published_at) ==
    [title |-> title, source_url |-> source_url,
     source_platform |-> source_platform, published_at |-> published_at]

Aware(wall) == [naive |-> FALSE, wall |-> wall]
Naive(wall) == [naive |-> TRUE, wall |-> wall]

\* An existing topic as filter_duplicates reads it: t.get("source_url") and
\* t.get("title"), None for a missing key as for a null.
Existing(source_url, title) == [source_url |-> source_url, title |-> title]

\* deduplication.py lines 42-54: the two lookup sets
ExistingUrls(existing_topics) ==
    {existing_topics[i].source_url.v : i \in
        {j \in 1..Len(existing_topics) : ~existing_topics[j].source_url.none}}

ExistingTitles(existing_topics) ==
    {Strip(Lower(existing_topics[i].title.v)) : i \in
        {j \in 1..Len(existing_topics) : ~existing_topics[j].title.none}}

\* lines 59-71: one turn of the loop; topic.source_url is tested for truth
\* before it is looked up
IsDuplicate_exact(topic, existing_topics) ==
    \/ /\ ~topic.source_url.none
       /\ topic.source_url.v # ""
       /\ topic.source_url.v \in ExistingUrls(existing_topics)
    \/ topic.title \in
          {existing_topics[i].title.v : i \in
              {j \in 1..Len(existing_topics) : ~existing_topics[j].title.none}}

IsDuplicate(topic, existing_topics) ==
    \/ /\ ~topic.source_url.none
       /\ topic.source_url.v # ""
       /\ topic.source_url.v \in ExistingUrls(existing_topics)
    \/ Strip(Lower(topic.title)) \in ExistingTitles(existing_topics)

\* lines 18-80: filter_duplicates(raws, existing_topics): the second is an
\* optional list; stored: what query_collection returns (the 1000 newest
\* documents, of which the model has at most MaxExisting); query: "ok" or
\* "fail", for a query that raises.
FilterDuplicates(raws, existing_topics, stored, query) ==
    LET asks     == existing_topics.none
        existing == IF asks THEN stored ELSE existing_topics.v
    IN  IF asks /\ query = "fail"
        THEN [raised |-> TRUE, result |-> <<>>, queries |-> 1,
              existing |-> <<>>]
        ELSE [raised |-> FALSE,
              result |-> SelectSeq(raws,
                             LAMBDA t : ~IsDuplicate(t, existing)),
              queries |-> IF asks THEN 1 ELSE 0,
              existing |-> existing]

\* int(x) of a number of half seconds: the whole seconds, towards zero
IntSeconds(x) == IF x >= 0 THEN x \div 2 ELSE 0 - ((0 - x) \div 2)

\* datetime.timestamp(): a naive datetime is read in the local time zone
\* of the process, tz half seconds east of UTC
Timestamp(published_at, tz) ==
    IF published_at.naive THEN published_at.wall - tz ELSE published_at.wall

\* hashlib.md5(content).hexdigest()[:8]; the contents of the model have
\* distinct digests.
Md5Prefix(content) == <<"md5", content>>

\* ingestion_service.py lines 115-128: _generate_topic_id; the id is
\* written as the three parts its text joins with "-"
GenerateTopicId_url(raw_topic, tz) ==
    LET timestamp == IntSeconds(Timestamp(raw_topic.published_at, tz))
    IN  <<raw_topic.source_platform, timestamp,
          Md5Prefix(<<raw_topic.source_platform, raw_topic.title,
                      raw_topic.source_url, timestamp>>)>>

GenerateTopicId(raw_topic, tz) ==
    LET timestamp == IntSeconds(Timestamp(raw_topic.published_at, tz))
    IN  <<raw_topic.source_platform, timestamp,
          Md5Prefix(<<raw_topic.source_platform, raw_topic.title,
                      timestamp>>)>>

\* No call made yet.  existing is the list the last filter_duplicates
\* compared with, queries the store queries it made; raw_topic and id are
\* the argument and the result of the last _generate_topic_id, earlier
\* holds those of the call before it, if that was one too.
NoIngest == [op |-> "none", raised |-> FALSE, result |-> <<>>,
             queries |-> 0, existing |-> <<>>,
             raw_topic |-> Raw(<<>>, NoUrl, "manual", Aware(0)), id |-> <<>>,
             earlier |-> <<>>]

\* store: the newest documents of topic_candidates, as the query of lines
\* 35-40 returns them; tz: the local time zone of the process;
\* all_raw_topics and existing_topics: what the caller of filter_duplicates
\* holds for its two arguments.
IdleIng == [store |-> <<>>, tz |-> 0, all_raw_topics |-> <<>>,
            existing_topics |-> [none |-> TRUE, v |-> <<>>],
            last |-> NoIngest]

\* ------------------------------------------- sessions one after another
MaxSessions == 3   \* review sessions run one after another

\* _save_session, line 471: the one name a session is saved under
SessionFileName == ".review_session.json"
\* another name the operator keeps a copy of the session file under
KeptFileName == "kept.json"

\* No session has run.  kept: the file under KeptFileName, <<>> if absent;
\* resume_file: the --resume option of the session started last (line 51);
\* loaded: whether it read a session file (line 66); sessions: how many
\* were started.
IdleSess == [kept |-> <<>>, resume_file |-> None, loaded |-> FALSE,
             sessions |-> 0]

\* ------------------------------------------------------ the job tracker
MaxTracked == 3   \* job runs tracked one after another

\* How the block inside `async with track_job_run(...)` ends: normally,
\* with an Exception, or with a BaseException that is no Exception
\* (asyncio.CancelledError, KeyboardInterrupt).
BlockEnds == {"ok", "exception", "base_exception"}

\* No run was tracked.  job_runs: the status stored under each run id,
\* "absent" if no document; status: job_run.status in memory; block: how
\* the tracked block ended; raised: an exception reached the caller.
IdleTracker == [job_runs |-> [r \in 1..MaxTracked |-> "absent"],
                pc |-> "idle", run_id |-> 0, status |-> None,
                block |-> None, raised |-> FALSE]

\* job_tracker.py lines 31-51: up to the yield; o is what the first
\* set_document does.  run_id is an id no run had (uuid4, line 33).
EnterTracked(tr, run_id, o) ==
    [tr EXCEPT !.pc = "block", !.run_id = run_id, !.status = "running",
               !.block = None, !.raised = FALSE,
               !.job_runs = IF o = "ok"
                            THEN [@ EXCEPT ![run_id] = "running"]
                            ELSE @]                            \* line 50

\* lines 66-83: the except branch; o is what its set_document does
TrackFailed(tr, how, o) ==
    [tr EXCEPT !.pc = "ended", !.block = how, !.status = "failed",
               !.raised = TRUE,                                \* line 83
               !.job_runs = IF o = "ok"
                            THEN [@ EXCEPT ![tr.run_id] = "failed"]
                            ELSE @]                            \* line 81

\* lines 53-83: from the end of the tracked block on; completed and failed
\* are what the set_document of line 63 and of line 78 do
LeaveTracked(tr, how, completed, failed) ==
    IF how = "base_exception"
    THEN [tr EXCEPT !.pc = "ended", !.block = how, !.raised = TRUE]
    ELSE IF how = "exception"
    THEN TrackFailed(tr, how, failed)
    ELSE IF completed = "ok"
    THEN [tr EXCEPT !.pc = "ended", !.block = how,
                    !.status = "completed",
                    !.job_runs = [@ EXCEPT ![tr.run_id] = "completed"]]
    ELSE TrackFailed(tr, how, failed)

\* ------------------------------------------------ the batch writers
MaxSnapshots == 4   \* documents topic_scores can hold
MaxSaveCalls == 2   \* save_scores calls made one after another

\* document ids of topic_scores
ScoreIds == 1..MaxSnapshots

\* No document under an id of topic_scores.
NoSnapshot == [topic_id |-> 0, score |-> 0, run_id |-> 0, created_at |-> <<>>]

\* created_at of a score (models.py line 87-89), an instant of UTC: s the
\* last digit of its seconds, us the first digit of its microseconds
Instants == {[s |-> 1, us |-> 0], [s |-> 1, us |-> 5], [s |-> 2, us |-> 0]}

\* models.py lines 98-99: datetime.isoformat() of an aware UTC datetime, as
\* character codes: the seconds digit, "." (46) and the fraction unless the
\* microseconds are 0, then the offset "+00:00", of which "+" (43) is kept.
IsoFormat(t) ==
    <<48 + t.s>> \o (IF t.us = 0 THEN <<>> ELSE <<46, 48 + t.us>>) \o <<43>>

\* a < b for two strings, as Firestore and list.sort compare them
RECURSIVE StrLess(_, _)
StrLess(a, b) ==
    IF b = <<>> THEN FALSE
    ELSE IF a = <<>> THEN TRUE
    ELSE IF Head(a) # Head(b) THEN Head(a) < Head(b)
    ELSE StrLess(Tail(a), Tail(b))

\* topic_scoring_job.py lines 187-208: a TopicScore
TopicScore(topic_id, score, run_id, created_at) ==
    [topic_id |-> topic_id, score |-> score, run_id |-> run_id,
     created_at |-> created_at]

\* models.py lines 95-100: TopicScore.to_firestore_dict
ToFirestoreDict(score) == [score EXCEPT !.created_at = IsoFormat(@)]

\* ScoreId with the topic's id for document id: one score per topic.
ScoreId_topic(score, topic_scores) == score.topic_id

\* topic_scoring_job.py line 242: str(uuid.uuid4()), an id no document has
ScoreId(score, topic_scores) ==
    CHOOSE id \in ScoreIds :
       /\ topic_scores[id] = NoSnapshot
       /\ \A other \in 1..(id - 1) : topic_scores[other] # NoSnapshot

\* No save call is under way.  written and failed: the items of the list
\* whose write succeeded and failed.
NoSave == [fn |-> "none", pc |-> "idle", items |-> <<>>, i |-> 0,
           saved_count |-> 0, written |-> <<>>, failed |-> <<>>,
           skipped |-> <<>>]

\* Nothing was joined to the topics.
NoJoin == [t \in TopicIds |-> 0]

\* topic_scores and topic_candidates empty.  calls: save_scores calls made;
\* log: every score written, oldest first; joined: the document
\* _fetch_scores gave each topic.
IdleSaves == [topic_scores |-> [id \in ScoreIds |-> NoSnapshot],
              candidates |-> {}, call |-> NoSave, calls |-> 0,
              log |-> <<>>, joined |-> NoJoin, fetched |-> FALSE]

\* the loop of save_scores and save_topics goes to its next item, or the
\* call returns saved_count
NextItem(c) ==
    IF c.i < Len(c.items) THEN [c EXCEPT !.i = @ + 1]
    ELSE [c EXCEPT !.pc = "returned"]

\* a save call begins on a list
BeginSave(fn, items) ==
    [NoSave EXCEPT !.fn = fn, !.items = items, !.i = 1,
                   !.pc = IF items = <<>> THEN "returned" ELSE "loop"]

\* SaveScoresIteration stopping at the first failed write.
SaveScoresIteration_stop(sv, o) ==
    LET c        == sv.call
        score    == c.items[c.i]
        score_id == ScoreId(score, sv.topic_scores)
    IN  IF o = "ok"
        THEN [sv EXCEPT
                !.topic_scores = [@ EXCEPT ![score_id] = ToFirestoreDict(score)],
                !.log = Append(@, score),
                !.call = NextItem([c EXCEPT !.saved_count = @ + 1,
                                            !.written = Append(@, c.i)])]
        ELSE [sv EXCEPT !.call = [c EXCEPT !.pc = "returned",
                                          !.failed = Append(@, c.i)]]

\* topic_scoring_job.py lines 238-255: one iteration of save_scores; o is
\* what set_document does
SaveScoresIteration(sv, o) ==
    LET c        == sv.call
        score    == c.items[c.i]
        score_id == ScoreId(score, sv.topic_scores)            \* line 242
    IN  IF o = "ok"
        THEN [sv EXCEPT
                !.topic_scores = [@ EXCEPT ![score_id] = ToFirestoreDict(score)],
                !.log = Append(@, score),
                !.call = NextItem([c EXCEPT !.saved_count = @ + 1,
                                            !.written = Append(@, c.i)])]
        ELSE [sv EXCEPT !.call = NextItem([c EXCEPT            \* line 253
                                             !.failed = Append(@, c.i)])]

\* ingestion_service.py lines 142-159: one iteration of save_topics; get
\* and set are what get_document and set_document do
SaveTopicsIteration(sv, get, set) ==
    LET c  == sv.call
        id == c.items[c.i]
    IN  IF get = "fail"                                        \* line 157
        THEN [sv EXCEPT !.call = NextItem([c EXCEPT
                                             !.failed = Append(@, c.i)])]
        ELSE IF id \in sv.candidates                           \* line 147
        THEN [sv EXCEPT !.call = NextItem([c EXCEPT
                                             !.skipped = Append(@, c.i)])]
        ELSE IF set = "fail"                                   \* line 157
        THEN [sv EXCEPT !.call = NextItem([c EXCEPT
                                             !.failed = Append(@, c.i)])]
        ELSE [sv EXCEPT
                !.candidates = @ \cup {id},                    \* line 152
                !.call = NextItem([c EXCEPT !.saved_count = @ + 1,
                                            !.written = Append(@, c.i)])]

\* the documents of topic_scores for topic_id
SnapshotsOf(topic_scores, topic_id) ==
    {id \in ScoreIds : topic_scores[id].topic_id = topic_id}

\* topic_reviewer.py lines 236-258: the documents that can come first for
\* topic_id in the result ordered by created_at DESCENDING
LatestOf(topic_scores, topic_id) ==
    LET mine == SnapshotsOf(topic_scores, topic_id)
    IN  {id \in mine :
            \A other \in mine : ~StrLess(topic_scores[id].created_at,
                                          topic_scores[other].created_at)}

\* The session file an earlier session can have left: none, or one naming
\* the oldest topic as processed.
EarlierFiles ==
    {<<>>, <<SessionData({1}, [ZeroStats EXCEPT !.approved = 1], NoAction)>>}

\* The store as ingestion and earlier reviews can have left it: every topic
\* pending, or every topic deferred.
EarlierStores == {[t \in TopicIds |-> st] : st \in {"pending", "deferred"}}

\* A reviewer has been constructed (lines 42-54); the ledger is counted
\* from here.
Init ==
    /\ store \in EarlierStores
    /\ audit = <<>>
    /\ session_file \in EarlierFiles
    /\ stats = ZeroStats
    /\ processed_ids = {}
    /\ last_action = NoAction
    /\ loaded_ids = {}
    /\ topics = <<>>
    /\ page = 1
    /\ current_idx = 0
    /\ pc = "new"
    /\ exit = None
    /\ last = NoObs
    /\ others = 0
    /\ job = IdleJob
    /\ svc = IdleSvc
    /\ db = EmptyDb
    /\ ing = IdleIng
    /\ sess = IdleSess
    /\ tracker = IdleTracker
    /\ saves = IdleSaves

\* cli/review.py lines 32-34 and review_topics lines 56-114: a reviewer is
\* constructed and review_topics runs up to its first prompt.
StartSession(resume, interactive, status, limit, fetch) ==
    /\ pc = "new"
    /\ LET loaded  == interactive /\ resume /\ session_file # <<>>
           p0      == IF loaded THEN session_file[1].processed_ids ELSE {}
           st0     == IF loaded THEN session_file[1].stats ELSE ZeroStats
           fetched == FetchTopics(store, status, limit)
           batch   == FilterProcessed(fetched, p0)
           how     == IF ~interactive THEN "no_terminal"       \* line 61
                      ELSE IF fetch = "fail" THEN "error"      \* line 169
                      ELSE IF fetched = <<>> THEN "no_topics"  \* line 79
                      ELSE IF batch = <<>> THEN "all_processed" \* line 107
                      ELSE None
       IN  /\ processed_ids' = p0
           /\ stats' = st0
           /\ loaded_ids' = p0
           /\ last_action' = NoAction
           /\ topics' = IF how = None THEN batch ELSE <<>>
           /\ pc' = IF how = None THEN "loop" ELSE "ended"
           /\ exit' = how
           /\ session_file' = IF how = "error"                 \* line 172
                              THEN <<SessionData(p0, st0, NoAction)>>
                              ELSE session_file
           /\ last' = [NoObs EXCEPT !.op = "start",
                                    !.saved = (how = "error")]
    /\ page' = 1
    /\ current_idx' = 0
    /\ UNCHANGED <<store, audit, others, job, svc, db, ing, sess, tracker, saves>>

\* lines 129-131 and 453-456: EOF or Ctrl+C at the selection prompt
SelectInterrupt ==
    /\ pc = "loop"
    /\ session_file' = <<SessionData(processed_ids, stats, last_action)>>
    /\ pc' = "ended"
    /\ exit' = "interrupt"
    /\ last' = [NoObs EXCEPT !.op = "interrupt", !.saved = TRUE]
    /\ UNCHANGED <<store, audit, stats, processed_ids, last_action,
                   loaded_ids, topics, page, current_idx,
                   others, job, svc, db, ing, sess, tracker, saves>>

\* lines 133-135 and 458-461
Quit ==
    /\ pc = "loop"
    /\ session_file' = <<SessionData(processed_ids, stats, last_action)>>
    /\ pc' = "ended"
    /\ exit' = "quit"
    /\ last' = [NoObs EXCEPT !.op = "quit", !.saved = TRUE]
    /\ UNCHANGED <<store, audit, stats, processed_ids, last_action,
                   loaded_ids, topics, page, current_idx,
                   others, job, svc, db, ing, sess, tracker, saves>>

\* lines 137-140, then the loop test of line 116 and lines 165-167
NextPage ==
    /\ pc = "loop"
    /\ page' = page + 1
    /\ current_idx' = Min((page' - 1) * per_page, Len(topics))
    /\ pc' = IF current_idx' < Len(topics) THEN "loop" ELSE "ended"
    /\ exit' = IF current_idx' < Len(topics) THEN None ELSE "complete"
    /\ last' = [NoObs EXCEPT !.op = "next"]
    /\ UNCHANGED <<store, audit, session_file, stats, processed_ids,
                   last_action, loaded_ids, topics, others, job, svc, db, ing, sess, tracker, saves>>

\* line 145
TopicIdx(topic_num) == (page - 1) * per_page + topic_num - 1

\* lines 146-148: a number that selects no topic of the batch
InvalidSelection(topic_num) ==
    /\ pc = "loop"
    /\ TopicIdx(topic_num) < 0 \/ TopicIdx(topic_num) >= Len(topics)
    /\ last' = [NoObs EXCEPT !.op = "invalid"]
    /\ UNCHANGED <<store, audit, session_file, stats, processed_ids,
                   last_action, loaded_ids, topics, page,
                   current_idx, pc, exit, others, job, svc, db, ing, sess, tracker, saves>>

\* The operator picked a topic of the page (lines 143-155).
Selected(topic_num) ==
    /\ pc = "loop"
    /\ TopicIdx(topic_num) >= 0
    /\ TopicIdx(topic_num) < Len(topics)

\* lines 160-167: after _review_topic returned.  p, st and la are the
\* reviewer's fields as _review_topic left them, obs its observation.
Advance(p, st, la, obs) ==
    LET idx  == current_idx + 1
        save == idx % AutoSaveEvery = 0
    IN  /\ current_idx' = idx
        /\ processed_ids' = p
        /\ stats' = st
        /\ last_action' = la
        /\ session_file' = IF save THEN <<SessionData(p, st, la)>>
                           ELSE session_file
        /\ pc' = IF idx < Len(topics) THEN "loop" ELSE "ended"
        /\ exit' = IF idx < Len(topics) THEN None ELSE "complete"
        /\ last' = [obs EXCEPT !.saved = save]
        /\ UNCHANGED <<page, loaded_ids, topics, others, job, svc, db, ing, sess, tracker, saves>>

\* lines 282-283 with EOFError: caught at line 169, which saves
ActionEOF(topic_num) ==
    /\ Selected(topic_num)
    /\ session_file' = <<SessionData(processed_ids, stats, last_action)>>
    /\ pc' = "ended"
    /\ exit' = "error"
    /\ last' = [NoObs EXCEPT !.op = "eof", !.saved = TRUE]
    /\ UNCHANGED <<store, audit, stats, processed_ids, last_action,
                   loaded_ids, topics, page, current_idx,
                   others, job, svc, db, ing, sess, tracker, saves>>

\* lines 282-283 with KeyboardInterrupt: not an Exception, so line 169 does
\* not catch it and it leaves review_topics
ActionKeyboardInterrupt(topic_num) ==
    /\ Selected(topic_num)
    /\ pc' = "ended"
    /\ exit' = "keyboard_interrupt"
    /\ last' = [NoObs EXCEPT !.op = "kbd", !.raised = TRUE]
    /\ UNCHANGED <<store, audit, session_file, stats, processed_ids,
                   last_action, loaded_ids, topics, page,
                   current_idx, others, job, svc, db, ing, sess, tracker, saves>>

\* lines 287-288
Back(topic_num) ==
    /\ Selected(topic_num)
    /\ Advance(processed_ids, stats, last_action,
               [NoObs EXCEPT !.op = "back"])
    /\ UNCHANGED <<store, audit>>

\* lines 294-297
Skip(topic_num) ==
    /\ Selected(topic_num)
    /\ Advance(processed_ids, [stats EXCEPT !.skipped = @ + 1], last_action,
               [NoObs EXCEPT !.op = "skip"])
    /\ UNCHANGED <<store, audit>>

\* lines 419-451.  o is what the store does.  The result holds the store
\* and the reviewer's fields after the call.
UndoLastAction(s, st, p, la, confirm, o) ==
    LET same == [store |-> s, stats |-> st, processed_ids |-> p,
                 last_action |-> la]
    IN  IF la = NoAction THEN same                             \* line 423
        ELSE IF ~confirm THEN same                             \* line 431
        ELSE IF o = "fail" THEN same                           \* line 450
        ELSE [store |-> IF o = "ok"
                        THEN [s EXCEPT ![la.topic_id] = la.old_status]
                        ELSE s,
              stats |-> [st EXCEPT ![la.new_status] = @ - 1],
              processed_ids |-> p \ {la.topic_id},
              last_action |-> NoAction]

\* lines 290-292
Undo(topic_num, confirm, o) ==
    /\ Selected(topic_num)
    /\ LET u == UndoLastAction(store, stats, processed_ids, last_action,
                               confirm, o)
           done == last_action # NoAction /\ confirm /\ o # "fail"
       IN  /\ store' = u.store
           /\ Advance(u.processed_ids, u.stats, u.last_action,
                  [NoObs EXCEPT !.op = "undo",
                                !.topic = last_action.topic_id,
                                !.new = last_action.old_status,
                                !.confirmed = confirm,
                                !.prompts = IF last_action = NoAction
                                            THEN 0 ELSE 1,
                                !.fails = IF o = "ok" THEN 0 ELSE 1,
                                !.wrote = done /\ o = "ok"])
    /\ UNCHANGED audit

\* RecordDecision with lines 314-323 outside the try: they run also when
\* _update_topic_status raised.
RecordDecision_always(raised, st, p, la, topic, status, k) ==
    [stats |-> [st EXCEPT ![status] = @ + 1],
     processed_ids |-> p \cup {topic.id},
     last_action |-> [topic_id |-> topic.id, old_status |-> topic.status,
                      new_status |-> status, action |-> k]]

\* lines 312-328: the reviewer's fields after _update_topic_status
RecordDecision(raised, st, p, la, topic, status, k) ==
    IF raised
    THEN [stats |-> st, processed_ids |-> p, last_action |-> la]
    ELSE [stats |-> [st EXCEPT ![status] = @ + 1],
          processed_ids |-> p \cup {topic.id},
          last_action |-> [topic_id |-> topic.id,
                           old_status |-> topic.status,
                           new_status |-> status, action |-> k]]

\* lines 299-328: approve, reject or defer the selected topic
Decide(topic_num, k, outcomes, auditOutcome) ==
    /\ Selected(topic_num)
    /\ LET topic  == topics[TopicIdx(topic_num) + 1]
           status == NewStatus[k]
           r == UpdateTopicStatus(store, audit, topic.id, status,
                                  outcomes, auditOutcome)
           d == RecordDecision(r.raised, stats, processed_ids, last_action,
                               topic, status, k)
       IN  /\ store' = r.store
           /\ audit' = r.audit
           /\ Advance(d.processed_ids, d.stats, d.last_action, Obs(r))

\* another reviewer or service overwrites a topic's status while the
\* session is under way
OtherActor(t, st) ==
    /\ pc = "loop"
    /\ others < MaxOther
    /\ st # store[t]
    /\ others' = others + 1
    /\ store' = [store EXCEPT ![t] = st]
    /\ last' = [NoObs EXCEPT !.op = "other", !.topic = t, !.new = st]
    /\ UNCHANGED <<audit, session_file, stats, processed_ids, last_action,
                   loaded_ids, topics, page, current_idx, pc,
                   exit, job, svc, db, ing, sess, tracker, saves>>

Limits   == {1, 2}
\* what another reviewer does to a topic: approve it, or put it back
OtherStatuses == {"approved", "pending"}
Filters  == {"pending", "deferred"}
Choices  == 1..per_page
Failing  == {"get_fail", "set_fail"}

\* What the store and the operator can do during one transition: one
\* outcome per attempt.  An attempt after the one that ends the loop is
\* never made, so its outcome is fixed to "ok".
OverrideOutcomes ==
    {f \in [1..max_retries -> StoreOutcomes] :
        \A i \in 1..max_retries, j \in 1..max_retries :
           (i < j /\ f[i] \notin Failing) => f[j] = "ok"}

\* The same where no override question is asked.
PlainOutcomes ==
    {f \in OverrideOutcomes :
        \A i \in 1..max_retries : f[i] \notin {"decline", "get_fail"}}

\* The outcomes possible for a transition of topic t to `status`.
Outcomes(t, status) ==
    IF NeedsOverride(store[t], status) THEN OverrideOutcomes
    ELSE PlainOutcomes

\* The store is called by undo only after a confirmed question (line 431).
UndoOutcomesFor(confirm) ==
    IF confirm /\ last_action # NoAction THEN UndoOutcomes ELSE {"ok"}

\* The audit part runs only after a status write (line 358).
AuditOutcomesFor(outcomes) ==
    IF \E i \in 1..max_retries : outcomes[i] = "ok"
    THEN AuditOutcomes ELSE {"ok"}

\* A decision on the selected topic, with whatever the store and the
\* operator do during it.
Decision(topic_num, k) ==
    /\ Selected(topic_num)
    /\ \E outcomes \in Outcomes(topics[TopicIdx(topic_num) + 1].id,
                                 NewStatus[k]) :
          \E auditOutcome \in AuditOutcomesFor(outcomes) :
             Decide(topic_num, k, outcomes, auditOutcome)

Next ==
    \/ \E resume \in BOOLEAN, interactive \in BOOLEAN, status \in Filters,
          limit \in Limits, fetch \in FetchOutcomes :
          StartSession(resume, interactive, status, limit, fetch)
    \/ SelectInterrupt
    \/ Quit
    \/ NextPage
    \/ \E n \in Choices : InvalidSelection(n)
    \/ \E n \in Choices : ActionEOF(n)
    \/ \E n \in Choices : ActionKeyboardInterrupt(n)
    \/ \E n \in Choices : Back(n)
    \/ \E n \in Choices : Skip(n)
    \/ \E n \in Choices, confirm \in BOOLEAN :
          \E o \in UndoOutcomesFor(confirm) : Undo(n, confirm, o)
    \/ \E n \in Choices, k \in DOMAIN NewStatus : Decision(n, k)
    \/ \E t \in TopicIds, st \in OtherStatuses : OtherActor(t, st)

Spec == Init /\ [][Next]_vars

\* ------------------------------------------------ the scoring job alone
\* No review session is under way.
NoSession ==
    /\ store = [t \in TopicIds |-> "pending"]
    /\ audit = <<>>
    /\ session_file = <<>>
    /\ stats = ZeroStats
    /\ processed_ids = {}
    /\ last_action = NoAction
    /\ loaded_ids = {}
    /\ topics = <<>>
    /\ page = 1
    /\ current_idx = 0
    /\ pc = "new"
    /\ exit = None
    /\ last = NoObs
    /\ others = 0

InitJob ==
    /\ NoSession
    /\ job = IdleJob
    /\ svc = IdleSvc
    /\ db = EmptyDb
    /\ ing = IdleIng
    /\ sess = IdleSess
    /\ tracker = IdleTracker
    /\ saves = IdleSaves

ScoreTopics(n, ceiling, use_llm, run_id) ==
    /\ job.pc \in {"idle", "returned"}
    /\ job' = BeginScoring(n, ceiling, use_llm, run_id)
    /\ UNCHANGED <<reviewerVars, svc, db, ing, sess, tracker, saves>>

ScoreStep(outcome, cost) ==
    /\ job.pc = "loop"
    /\ job' = ScoreIteration(job, outcome, cost)
    /\ UNCHANGED <<reviewerVars, svc, db, ing, sess, tracker, saves>>

NextJob ==
    \/ \E n \in 0..MaxBatch, ceiling \in Ceilings, use_llm \in BOOLEAN,
          run_id \in RunIds :
          ScoreTopics(n, ceiling, use_llm, run_id)
    \/ \E outcome \in ScoreOutcomes, cost \in Costs : ScoreStep(outcome, cost)

SpecJob == InitJob /\ [][NextJob]_vars

\* ------------------------------------------- the scoring service alone
InitScoring ==
    /\ NoSession
    /\ job = IdleJob
    /\ db = EmptyDb
    /\ ing = IdleIng
    /\ sess = IdleSess
    /\ tracker = IdleTracker
    /\ saves = IdleSaves
    /\ svc \in {[IdleSvc EXCEPT !.weights = w] : w \in WeightVectors}
               \cup {[IdleSvc EXCEPT !.cache = c] : c \in CachePayloads}

\* The call `op` was made and came to r.
Called(op, topic, all_topics, llm, reply, reply2, inputs, r) ==
    /\ svc' = [svc EXCEPT !.weights = r.weights,
                          !.last = [op |-> op, topic |-> topic,
                                    all_topics |-> all_topics, llm |-> llm,
                                    reply |-> reply, reply2 |-> reply2,
                                    inputs |-> inputs, at |-> svc.now,
                                    r |-> r, earlier |-> <<>>]]
    /\ UNCHANGED <<reviewerVars, job, db, ing, sess, tracker, saves>>

\* time passes
Tick ==
    /\ svc.now + HoursPerTick <= MaxTicks * HoursPerTick
    /\ svc' = [svc EXCEPT !.now = @ + HoursPerTick]
    /\ UNCHANGED <<reviewerVars, job, db, ing, sess, tracker, saves>>

AudienceFitAsyncCall(topic, use_cache, reply) ==
    Called("calculate_audience_fit_async", topic, <<>>,
           reply.kind # "unavailable", reply, Unavailable,
           <<0, 0, 0, 0>>,
           [NoResult EXCEPT
              !.weights = svc.weights,
              !.fit = CalculateAudienceFitAsync(CacheFor(topic), topic,
                                                use_cache, reply, svc.now)])

IntegrityPenaltyAsyncCall(topic, use_cache, reply) ==
    Called("calculate_integrity_penalty_async", topic, <<>>,
           reply.kind # "unavailable", Unavailable, reply, <<0, 0, 0, 0>>,
           [NoResult EXCEPT
              !.weights = svc.weights,
              !.penalty = CalculateIntegrityPenaltyAsync(CacheFor(topic),
                              topic, use_cache, reply, svc.now)])

IntegrityPenaltyCall(topic) ==
    Called("calculate_integrity_penalty", topic, <<>>, FALSE, Unavailable,
           Unavailable, <<0, 0, 0, 0>>,
           [NoResult EXCEPT !.weights = svc.weights,
                            !.penalty = CalculateIntegrityPenalty(topic)])

CompositeScoreCall(recency, velocity, audience_fit, integrity_penalty) ==
    LET c == CalculateCompositeScore(svc.weights, recency, velocity,
                                     audience_fit, integrity_penalty)
    IN  Called("calculate_composite_score", TopicA, <<>>, FALSE, Unavailable,
               Unavailable,
               <<recency, velocity, audience_fit, integrity_penalty>>,
               [NoResult EXCEPT !.raised = c.raised, !.score = c.score,
                                !.normalised = c.normalised,
                                !.weights = c.weights])

ScoreTopicCall(topic, all_topics) ==
    Called("score_topic", topic, all_topics, FALSE, Unavailable, Unavailable,
           <<0, 0, 0, 0>>, ScoreTopic(svc.weights, topic, all_topics))

ScoreTopicAsyncCall(topic, all_topics, use_llm, enabled, fitReply, penaltyReply) ==
    Called("score_topic_async", topic, all_topics, use_llm /\ enabled,
           fitReply, penaltyReply,
           <<0, 0, 0, 0>>,
           ScoreTopicAsync(svc.weights, CacheFor(topic), topic, all_topics,
                           use_llm, enabled, fitReply, penaltyReply, svc.now))

\* component values in their ranges, in units of 0.0001
UnitValues    == {0, 10000}
PenaltyRange  == {0 - 5000, 0 - 2000, 0}
\* all_topics: None, or the batch
TheBatch      == <<TopicA, TopicB, TopicC>>
SampleBatches == {<<>>, TheBatch}
\* replies tried inside score_topic_async
FitRepliesShort     == {Unavailable, Malformed, Json(JNum(70)), Json(JNum(150))}
PenaltyRepliesShort == {Unavailable, Json(JStr), Json(JNum(0 - 20))}

\* With LLM scoring disabled there is no service to call (line 97).
RepliesWhen(enabled, replies) == IF enabled THEN replies ELSE {Unavailable}

NextScoring ==
    \/ Tick
    \/ \E topic \in SampleTopics, use_cache \in BOOLEAN, reply \in FitReplies :
          AudienceFitAsyncCall(topic, use_cache, reply)
    \/ \E topic \in SampleTopics, use_cache \in BOOLEAN,
          reply \in PenaltyReplies :
          IntegrityPenaltyAsyncCall(topic, use_cache, reply)
    \/ \E topic \in SampleTopics : IntegrityPenaltyCall(topic)
    \/ \E r \in UnitValues, v \in UnitValues, a \in UnitValues,
          p \in PenaltyRange : CompositeScoreCall(r, v, a, p)
    \/ \E topic \in SampleTopics, all_topics \in SampleBatches :
          ScoreTopicCall(topic, all_topics)
    \/ \E topic \in {TopicA, TopicB}, all_topics \in {TheBatch},
          use_llm \in BOOLEAN, enabled \in BOOLEAN :
          \E fitReply \in RepliesWhen(enabled, FitRepliesShort),
             penaltyReply \in RepliesWhen(enabled, PenaltyRepliesShort) :
             ScoreTopicAsyncCall(topic, all_topics, use_llm, enabled,
                                 fitReply, penaltyReply)

SpecScoring == InitScoring /\ [][NextScoring]_vars


\* --------------------------------------------- calculate_velocity alone
MaxPeers == 3    \* longest all_topics handed to calculate_velocity

\* A topic as calculate_velocity sees it.
Peer(platform, score, comments) ==
    [TopicB EXCEPT !.platform = platform, !.score = score,
                   !.comments = comments]

\* Reddit topics with engagement 0 (a negative score), 9, 50 (twice) and
\* 99, a hackernews topic and an rss topic.
VelocityTopics ==
    {Peer("reddit", 0 - 5, 0), Peer("reddit", 9, 0), Peer("reddit", 48, 25),
     Peer("reddit", 50, 0), Peer("reddit", 99, 0),
     Peer("hackernews", 99, 0), Peer("rss", 7, 3)}

InitVelocity ==
    /\ NoSession
    /\ job = IdleJob
    /\ db = EmptyDb
    /\ ing = IdleIng
    /\ sess = IdleSess
    /\ tracker = IdleTracker
    /\ saves = IdleSaves
    /\ svc = IdleSvc

\* The caller puts one more topic into the list it will hand over.
AddToBatch(topic) ==
    /\ Len(svc.last.all_topics) < MaxPeers
    /\ svc' = [svc EXCEPT !.last =
                  [NoCall EXCEPT !.op = "batch",
                                 !.all_topics = Append(svc.last.all_topics,
                                                       topic)]]
    /\ UNCHANGED <<reviewerVars, job, db, ing, sess, tracker, saves>>

VelocityCall(topic) ==
    Called("calculate_velocity", topic, svc.last.all_topics, FALSE,
           Unavailable, Unavailable, <<0, 0, 0, 0>>,
           [NoResult EXCEPT
              !.weights = svc.weights,
              !.score = CalculateVelocity(topic, svc.last.all_topics)])

NextVelocity ==
    \/ \E topic \in VelocityTopics : AddToBatch(topic)
    \/ \E topic \in VelocityTopics : VelocityCall(topic)

SpecVelocity == InitVelocity /\ [][NextVelocity]_vars

\* ------------------------------------------ the topic documents alone
\* latest composite scores the scoring job can have left, in hundredths
ScoreValues == {20, 80}

InitStore ==
    /\ NoSession
    /\ job = IdleJob
    /\ svc = IdleSvc
    /\ db \in {[EmptyDb EXCEPT !.scores = sc] : sc \in [TopicIds -> ScoreValues]}
    /\ ing = IdleIng
    /\ sess = IdleSess
    /\ tracker = IdleTracker
    /\ saves = IdleSaves

\* The step `op` on the store is done.
Stepped(docs, runs, op, id, run, transaction, presented) ==
    /\ db' = [db EXCEPT !.docs = docs, !.runs = runs,
                        !.last = [op |-> op, id |-> id, run |-> run,
                                  transaction |-> transaction,
                                  before |-> IF id \in TopicIds
                                             THEN db.docs[id] ELSE NoDoc,
                                  presented |-> presented]]
    /\ UNCHANGED <<reviewerVars, job, svc, ing, sess, tracker, saves>>

\* ingestion_service.py lines 143-149: save_topics call `run` comes to topic
\* `id` of its list and looks it up; o is what get_document does
SaveTopicsCheck(run, id, o) ==
    /\ db.runs[run].pc = "idle"
    /\ Stepped(db.docs,
               IF o = "ok" /\ db.docs[id] = NoDoc
               THEN [db.runs EXCEPT ![run] = [pc |-> "write", id |-> id]]
               ELSE db.runs,                                   \* 149, 157
               "save_check", id, run, FALSE, <<>>)

\* lines 151-159: the same call writes the topic it found missing; o is what
\* set_document does
SaveTopicsWrite(run, o) ==
    /\ db.runs[run].pc = "write"
    /\ LET id == db.runs[run].id
       IN  Stepped(IF o = "ok"
                   THEN SetDocument(db.docs, id, NewDoc(id, run))
                   ELSE db.docs,
                   [db.runs EXCEPT ![run] = IdleRun],
                   IF o = "ok" THEN "save_write" ELSE "save_failed",
                   id, run, FALSE, <<>>)

\* topic_reviewer.py lines 338-358 without a failing store call: the
\* reviewer reads the document and writes it back with the new status
ReviewerTransition(id, status, confirm) ==
    LET topic_data == db.docs[id]
        current    == IF "status" \in DOMAIN topic_data
                      THEN topic_data["status"] ELSE None
        skip       == topic_data = NoDoc                       \* line 343
                      \/ (NeedsOverride(current, status) /\ ~confirm)
    IN  Stepped(IF skip THEN db.docs
                ELSE SetDocument(db.docs, id,
                         UpdateDocument(db.docs, id,
                                        [status |-> status])[id]),
                db.runs, IF skip THEN "review_skip" ELSE "review", id, 0,
                FALSE, <<>>)

\* review_service.py lines 273-297: ReviewService.update_topic_status
ServiceUpdateTopicStatus(topic_id, new_status, transaction) ==
    LET update_data == [status |-> new_status]
    IN  IF transaction /\ db.docs[topic_id] = NoDoc
        THEN Stepped(db.docs, db.runs, "update_raised", topic_id, 0,
                     transaction, <<>>)
        ELSE Stepped(IF transaction
                     THEN UpdateDocument(db.docs, topic_id, update_data)
                     ELSE SetDocument(db.docs, topic_id, update_data),
                     db.runs, "update_topic_status", topic_id, 0,
                     transaction, <<>>)

\* topic_reviewer.py lines 181-187: the documents with the status asked
\* for, newest first; a document without created_at is in no ordered result
RECURSIVE QueryDocs(_, _, _)
QueryDocs(docs, status, i) ==
    IF i = 0 THEN <<>>
    ELSE (IF /\ {"status", "created_at"} \subseteq DOMAIN docs[i]
             /\ docs[i]["status"] = status
          THEN <<i>> ELSE <<>>)
         \o QueryDocs(docs, status, i - 1)

\* topic_reviewer.py lines 174-221: _fetch_topics, the ids in its order
FetchTopicDocs(docs, status, limit) ==
    Take(SelectSeq(Take(QueryDocs(docs, status, NumTopics), limit * 2),
                   LAMBDA i : "title" \in DOMAIN docs[i]),     \* 203-208
         limit)

\* topic_reviewer.py lines 72-118: a session with nothing processed and no
\* min_score loads its batch and shows it in that order
ReviewFetch(status, limit) ==
    Stepped(db.docs, db.runs, "fetch", 0, 0, FALSE,
            FetchTopicDocs(db.docs, status, limit))

NextStore ==
    \/ \E run \in 1..NumRuns, id \in TopicIds, o \in {"ok", "fail"} :
          SaveTopicsCheck(run, id, o)
    \/ \E run \in 1..NumRuns, o \in {"ok", "fail"} : SaveTopicsWrite(run, o)
    \/ \E id \in TopicIds, status \in {"approved", "deferred"},
          confirm \in BOOLEAN : ReviewerTransition(id, status, confirm)
    \/ \E id \in TopicIds, status \in {"approved", "pending"},
          transaction \in BOOLEAN :
          ServiceUpdateTopicStatus(id, status, transaction)
    \/ \E status \in Filters, limit \in Limits : ReviewFetch(status, limit)

SpecStore == InitStore /\ [][NextStore]_vars

\* --------------------------------------------- calculate_recency alone
\* created_at relative to now, in hours: a day ahead, now, one to three
\* days ago, and 1000, 1100 and 1200 days ago
Ages == {0 - 24, 0, 24, 48, 72, 24000, 26400, 28800}

\* Two topics at each age, and each without its timestamp.
RecencyTopics ==
    {[t EXCEPT !.age = a] : t \in {TopicA, TopicB}, a \in Ages}
    \cup {[t EXCEPT !.dated = FALSE] : t \in {TopicA, TopicB}}

InitRecency ==
    /\ NoSession
    /\ job = IdleJob
    /\ db = EmptyDb
    /\ ing = IdleIng
    /\ sess = IdleSess
    /\ tracker = IdleTracker
    /\ saves = IdleSaves
    /\ svc = IdleSvc

RecencyCall(topic) ==
    /\ svc' = [svc EXCEPT !.last =
                  [NoCall EXCEPT
                      !.op = "calculate_recency",
                      !.topic = topic,
                      !.r = [NoResult EXCEPT
                                !.weights = svc.weights,
                                !.recency = RecencyFloat(topic)],
                      !.earlier =
                          IF svc.last.op = "calculate_recency"
                          THEN <<[topic |-> svc.last.topic,
                                  r |-> svc.last.r]>>
                          ELSE <<>>]]
    /\ UNCHANGED <<reviewerVars, job, db, ing, sess, tracker, saves>>

NextRecency == \E topic \in RecencyTopics : RecencyCall(topic)

SpecRecency == InitRecency /\ [][NextRecency]_vars

\* ------------------------------------------------ the ingestion service
\* The lists of at most n elements of S.
Lists(S, n) == UNION {[1..k -> S] : k \in 0..n}

\* Existing topics: one with a URL and a title in capitals with a blank
\* behind it, one with an empty URL and no title, one with a title only.
ExistingSamples ==
    {Existing(Some("u1"), Some(<<"A", " ">>)),
     Existing(Some(""), NoTitle),
     Existing(NoUrl, Some(<<"b">>))}

\* Raw topics: the first has the title of an existing topic in lower case,
\* the second its URL; the third is the second with an empty URL; the
\* fourth has a title only, the fifth is like none of the existing ones;
\* the sixth is the first under another URL, its time written in UTC.
RawSamples ==
    {Raw(<<"a">>, Some("u2"), "reddit", Naive(4)),
     Raw(<<"a">>, Some("u1"), "reddit", Aware(2)),
     Raw(<<"A", "b">>, Some("u1"), "reddit", Aware(3)),
     Raw(<<"A", "b">>, Some(""), "reddit", Aware(3)),
     Raw(<<" ", "B">>, NoUrl, "hackernews", Naive(1)),
     Raw(<<"a", "b">>, Some("u2"), "rss", Aware(2))}

\* local time zones: UTC, and one second east of it
TimeZones == {0, 2}

\* What the store holds and what the caller passes for existing_topics:
\* nothing passed, or a list passed while the store is empty or holds one
\* document.
InitIngest ==
    /\ NoSession
    /\ job = IdleJob
    /\ svc = IdleSvc
    /\ db = EmptyDb
    /\ sess = IdleSess
    /\ tracker = IdleTracker
    /\ saves = IdleSaves
    /\ \E stored \in Lists(ExistingSamples, MaxExisting),
          passed \in BOOLEAN, tz \in TimeZones,
          raws \in Lists(RawSamples, MaxRaw) :
          ing = [IdleIng EXCEPT
                    !.store = IF passed
                              THEN SubSeq(stored, 1, Min(1, Len(stored)))
                              ELSE stored,
                    !.existing_topics = IF passed THEN Some(stored)
                                        ELSE [none |-> TRUE, v |-> <<>>],
                    !.tz = tz,
                    !.all_raw_topics = raws]

\* ingest_from_all_sources line 72 (and any other caller): the call
\* filter_duplicates(all_raw_topics, existing_topics)
FilterDuplicatesCall(query) ==
    /\ LET r == FilterDuplicates(ing.all_raw_topics, ing.existing_topics,
                                 ing.store, query)
       IN  ing' = [ing EXCEPT !.last =
                      [NoIngest EXCEPT !.op = "filter_duplicates",
                                       !.raised = r.raised,
                                       !.result = r.result,
                                       !.queries = r.queries,
                                       !.existing = r.existing]]
    /\ UNCHANGED <<reviewerVars, job, svc, db, sess, tracker, saves>>

\* line 86: _generate_topic_id for the i-th raw topic
GenerateTopicIdCall(i) ==
    /\ ing' = [ing EXCEPT !.last =
                  [NoIngest EXCEPT
                      !.op = "_generate_topic_id",
                      !.raw_topic = ing.all_raw_topics[i],
                      !.id = GenerateTopicId(ing.all_raw_topics[i], ing.tz),
                      !.earlier =
                          IF ing.last.op = "_generate_topic_id"
                          THEN <<[raw_topic |-> ing.last.raw_topic,
                                  id |-> ing.last.id]>>
                          ELSE <<>>]]
    /\ UNCHANGED <<reviewerVars, job, svc, db, sess, tracker, saves>>

NextIngest ==
    \/ \E query \in {"ok", "fail"} : FilterDuplicatesCall(query)
    \/ \E i \in 1..Len(ing.all_raw_topics) : GenerateTopicIdCall(i)

SpecIngest == InitIngest /\ [][NextIngest]_vars

\* ------------------------------------- review sessions one after another
\* The names --resume is given: none, the name sessions are saved under, or
\* the name of the kept copy.
ResumeFiles == {None, SessionFileName, KeptFileName}

\* review_utils.py lines 229-239: load_session_state(filepath), <<>> for
\* None
LoadSessionState(filepath) ==
    IF filepath = SessionFileName THEN session_file
    ELSE IF filepath = KeptFileName THEN sess.kept
    ELSE <<>>

\* Every attempt of a transition succeeds.
AllOk == [i \in 1..max_retries |-> "ok"]

InitResume ==
    /\ NoSession
    /\ job = IdleJob
    /\ svc = IdleSvc
    /\ db = EmptyDb
    /\ ing = IdleIng
    /\ sess = IdleSess
    /\ tracker = IdleTracker
    /\ saves = IdleSaves

\* cli/review.py lines 32-34 and review_topics lines 56-114 in a new
\* process: a reviewer is constructed with resume_file (lines 42-54) and
\* review_topics runs up to its first prompt.
ResumeSession(resume_file, interactive, status, limit, fetch) ==
    /\ pc \in {"new", "ended"}
    /\ sess.sessions < MaxSessions
    /\ LET session_data == IF resume_file = None THEN <<>>     \* line 64
                           ELSE LoadSessionState(resume_file)
           loaded  == interactive /\ session_data # <<>>       \* line 66
           p0      == IF loaded THEN session_data[1].processed_ids ELSE {}
           st0     == IF loaded THEN session_data[1].stats ELSE ZeroStats
           fetched == FetchTopics(store, status, limit)
           batch   == FilterProcessed(fetched, p0)
           how     == IF ~interactive THEN "no_terminal"       \* line 61
                      ELSE IF fetch = "fail" THEN "error"      \* line 169
                      ELSE IF fetched = <<>> THEN "no_topics"  \* line 79
                      ELSE IF batch = <<>> THEN "all_processed" \* line 107
                      ELSE None
       IN  /\ processed_ids' = p0
           /\ stats' = st0
           /\ loaded_ids' = p0
           /\ last_action' = NoAction
           /\ topics' = IF how = None THEN batch ELSE <<>>
           /\ pc' = IF how = None THEN "loop" ELSE "ended"
           /\ exit' = how
           /\ session_file' = IF how = "error"                 \* line 172
                              THEN <<SessionData(p0, st0, NoAction)>>
                              ELSE session_file
           /\ last' = [NoObs EXCEPT !.op = "start",
                                    !.saved = (how = "error")]
           /\ sess' = [sess EXCEPT !.resume_file = resume_file,
                                   !.loaded = loaded,
                                   !.sessions = @ + 1]
    /\ page' = 1
    /\ current_idx' = 0
    /\ UNCHANGED <<store, audit, others, job, svc, db, ing, tracker, saves>>

\* Between two sessions the operator copies the session file to keep it.
KeepCopy ==
    /\ pc \in {"new", "ended"}
    /\ session_file # <<>>
    /\ sess.kept # session_file
    /\ sess' = [sess EXCEPT !.kept = session_file]
    /\ UNCHANGED <<reviewerVars, job, svc, db, ing, tracker, saves>>

NextResume ==
    \/ \E resume_file \in ResumeFiles, interactive \in BOOLEAN,
          status \in Filters, limit \in Limits, fetch \in FetchOutcomes :
          ResumeSession(resume_file, interactive, status, limit, fetch)
    \/ KeepCopy
    \/ Quit
    \/ \E n \in Choices : Skip(n)
    \/ \E n \in Choices, k \in DOMAIN NewStatus : Decide(n, k, AllOk, "ok")

SpecResume == InitResume /\ [][NextResume]_vars

\* ------------------------------------------------- one long session
SessionBatch == 12   \* topics in the batch of the long session

\* The topic the operator picks on a page of the long session.
LongChoices == {1}

\* review_topics has fetched SessionBatch pending topics with the default
\* limit of 50, nothing was processed before, and it is at its first
\* prompt (lines 56-116); topic ids are creation times, newest first.
InitLong ==
    /\ store = [t \in 1..SessionBatch |-> "pending"]
    /\ audit = <<>>
    /\ session_file = <<>>
    /\ stats = ZeroStats
    /\ processed_ids = {}
    /\ last_action = NoAction
    /\ loaded_ids = {}
    /\ topics = [i \in 1..SessionBatch |->
                    [id |-> SessionBatch + 1 - i, status |-> "pending"]]
    /\ page = 1
    /\ current_idx = 0
    /\ pc = "loop"
    /\ exit = None
    /\ last = [NoObs EXCEPT !.op = "start"]
    /\ others = 0
    /\ job = IdleJob
    /\ svc = IdleSvc
    /\ db = EmptyDb
    /\ ing = IdleIng
    /\ sess = IdleSess
    /\ tracker = IdleTracker
    /\ saves = IdleSaves

NextLong ==
    \/ NextPage
    \/ \E n \in LongChoices : Back(n)
    \/ \E n \in LongChoices : Skip(n)
    \/ \E n \in LongChoices, confirm \in BOOLEAN :
          \E o \in UndoOutcomesFor(confirm) : Undo(n, confirm, o)
    \/ \E n \in LongChoices : Decide(n, "d", AllOk, "ok")

SpecLong == InitLong /\ [][NextLong]_vars

\* ------------------------------------------------- the batch writers
\* The lists of distinct topics handed to save_topics and scored by a run,
\* oldest topic first.
TopicLists ==
    {<<>>} \cup {<<t>> : t \in TopicIds}
    \cup {pair \in TopicIds \X TopicIds : pair[1] < pair[2]}

InitSave ==
    /\ NoSession
    /\ job = IdleJob
    /\ svc = IdleSvc
    /\ db = EmptyDb
    /\ ing = IdleIng
    /\ sess = IdleSess
    /\ tracker = IdleTracker
    /\ saves = IdleSaves

\* No save call is in its loop.
SavesAtRest == saves.call.pc \in {"idle", "returned"}

\* A scoring run of the job on its own, with its failures.
RunScoreTopics(n, run_id) ==
    /\ saves = IdleSaves
    /\ ScoreTopics(n, DefaultMaxCost, FALSE, run_id)

RunScoreStep(outcome) ==
    /\ saves = IdleSaves
    /\ ScoreStep(outcome, 0)

\* topic_scoring_job.py lines 280-292: a run of the job has scored stored
\* topics and calls save_scores with its scores: one for each topic of the
\* list, made at the given instants, under the run_id of the run
SaveScores(ts, at) ==
    /\ job.pc \in {"idle", "returned"}
    /\ SavesAtRest
    /\ saves.calls < MaxSaveCalls
    /\ \A k \in 1..Len(ts) : ts[k] \in saves.candidates
    /\ saves' = [saves EXCEPT
                    !.calls = @ + 1,
                    !.fetched = FALSE,
                    !.joined = NoJoin,
                    !.call = BeginSave("save_scores",
                                [k \in 1..Len(ts) |->
                                    TopicScore(ts[k], 50, saves.calls + 1,
                                               at[k])])]
    /\ UNCHANGED <<reviewerVars, job, svc, db, ing, sess, tracker>>

SaveScoresStep(o) ==
    /\ saves.call.fn = "save_scores" /\ saves.call.pc = "loop"
    /\ saves' = SaveScoresIteration(saves, o)
    /\ UNCHANGED <<reviewerVars, job, svc, db, ing, sess, tracker>>

\* topic_ingestion_job.py: save_topics is called with a list of candidates
SaveTopics(ts) ==
    /\ job.pc \in {"idle", "returned"}
    /\ SavesAtRest
    /\ saves.calls = 0
    /\ saves' = [saves EXCEPT !.call = BeginSave("save_topics", ts)]
    /\ UNCHANGED <<reviewerVars, job, svc, db, ing, sess, tracker>>

SaveTopicsStep(get, set) ==
    /\ saves.call.fn = "save_topics" /\ saves.call.pc = "loop"
    /\ saves' = SaveTopicsIteration(saves, get, set)
    /\ UNCHANGED <<reviewerVars, job, svc, db, ing, sess, tracker>>

\* topic_reviewer.py lines 223-265: _fetch_scores for the topics of a
\* batch; o is what the query does.  Which of several documents with one
\* created_at comes first is the store's choice.
FetchScores(o) ==
    /\ job.pc \in {"idle", "returned"}
    /\ SavesAtRest
    /\ saves.calls > 0 /\ ~saves.fetched
    /\ \E first \in [TopicIds -> ScoreIds \cup {0}] :
          /\ \A t \in TopicIds :
                IF o = "fail" \/ SnapshotsOf(saves.topic_scores, t) = {}
                THEN first[t] = 0
                ELSE first[t] \in LatestOf(saves.topic_scores, t)
          /\ saves' = [saves EXCEPT !.joined = first, !.fetched = TRUE]
    /\ UNCHANGED <<reviewerVars, job, svc, db, ing, sess, tracker>>

NextSave ==
    \/ \E n \in 0..NumTopics, run_id \in RunIds : RunScoreTopics(n, run_id)
    \/ \E outcome \in ScoreOutcomes : RunScoreStep(outcome)
    \/ \E ts \in TopicLists :
          \E at \in [1..Len(ts) -> Instants] : SaveScores(ts, at)
    \/ \E o \in {"ok", "fail"} : SaveScoresStep(o)
    \/ \E ts \in TopicLists : SaveTopics(ts)
    \/ \E get \in {"ok", "fail"}, set \in {"ok", "fail"} :
          SaveTopicsStep(get, set)
    \/ \E o \in {"ok", "fail"} : FetchScores(o)

SpecSave == InitSave /\ [][NextSave]_vars

\* ----------------------------------------------------- the job tracker
InitTracker ==
    /\ NoSession
    /\ job = IdleJob
    /\ svc = IdleSvc
    /\ db = EmptyDb
    /\ ing = IdleIng
    /\ sess = IdleSess
    /\ tracker = IdleTracker
    /\ saves = IdleSaves

\* a job enters `async with track_job_run(...)`
Enter(o) ==
    /\ tracker.pc \in {"idle", "ended"}
    /\ tracker.run_id < MaxTracked
    /\ tracker' = EnterTracked(tracker, tracker.run_id + 1, o)
    /\ UNCHANGED <<reviewerVars, job, svc, db, ing, sess, saves>>

\* the tracked block ends and the context manager is left
Leave(how, completed, failed) ==
    /\ tracker.pc = "block"
    /\ tracker' = LeaveTracked(tracker, how, completed, failed)
    /\ UNCHANGED <<reviewerVars, job, svc, db, ing, sess, saves>>

NextTracker ==
    \/ \E o \in {"ok", "fail"} : Enter(o)
    \/ \E how \in BlockEnds, completed \in {"ok", "fail"},
          failed \in {"ok", "fail"} : Leave(how, completed, failed)

SpecTracker == InitTracker /\ [][NextTracker]_vars

\* ================================================================ claims
\* The status an audit event records, read from its human_action.
EventStatus(e) ==
    IF e.human_action.selected_ids # <<>> THEN "approved"
    ELSE IF e.human_action.rejected_ids # <<>> THEN "rejected"
    ELSE IF e.human_action.deferred_ids # <<>> THEN "deferred"
    ELSE None

\* This step appended exactly one event to the ledger.
AppendedOne == Len(audit') = Len(audit) + 1 /\ SubSeq(audit', 1, Len(audit)) = audit

\* C1: approving a topic whose persisted status is pending, with no store
\* call failing, leaves the topic approved and appends exactly one audit
\* event with stage topic_selection, the topic's id, selected_ids = [X] and
\* empty rejected_ids and deferred_ids.
C1_ApprovePending ==
    [][(/\ last'.op = "decide" /\ last'.new = "approved"
        /\ store[last'.topic] = "pending"
        /\ last'.fails = 0 /\ ~last'.audit_failed)
       => (/\ store'[last'.topic] = "approved"
           /\ AppendedOne
           /\ LET e == audit'[Len(audit')]
              IN  /\ e.stage = "topic_selection"
                  /\ e.topic_id = last'.topic
                  /\ e.human_action.selected_ids = <<last'.topic>>
                  /\ e.human_action.rejected_ids = <<>>
                  /\ e.human_action.deferred_ids = <<>>)]_vars

C1_Witness ==
    /\ last.op = "decide" /\ last.new = "approved" /\ last.cur = "pending"
    /\ last.fails = 0 /\ last.audited
    /\ store[last.topic] = "approved"
    /\ Len(audit) = 1 /\ audit[1].human_action.selected_ids = <<last.topic>>

\* C2 as stated: every transition whose status write succeeded appends
\* exactly one audit event naming the topic and the new status, also when
\* the score query or the audit write fails.
C2_AlwaysAudited ==
    [][(last'.op = "decide" /\ last'.wrote)
       => (/\ AppendedOne
           /\ audit'[Len(audit')].topic_id = last'.topic
           /\ EventStatus(audit'[Len(audit')]) = last'.new)]_vars

\* C2 as amended: a transition whose status write succeeded appends exactly
\* one audit event naming the topic and the new status when the score query
\* and the audit write succeed, and none when either fails; a transition
\* that wrote no status appends none.
C2_AuditedUnlessAuditFails ==
    [][(last'.op = "decide")
       => IF last'.wrote /\ ~last'.audit_failed
          THEN /\ AppendedOne
               /\ audit'[Len(audit')].topic_id = last'.topic
               /\ EventStatus(audit'[Len(audit')]) = last'.new
          ELSE audit' = audit]_vars

C2_Witness ==
    /\ last.op = "decide" /\ last.wrote /\ last.audit_failed
    /\ last.cur # last.new
    /\ store[last.topic] = last.new
    /\ audit = <<>>

\* C3: when the status write succeeds and the audit part fails, the new
\* status stays persisted, nothing is raised to the caller, and the counter
\* of the new status, the processed set and the last action are updated as
\* for a transition whose audit part succeeded.
C3_AuditFailureKeepsStatus ==
    [][(last'.op = "decide" /\ last'.wrote /\ last'.audit_failed)
       => (/\ store'[last'.topic] = last'.new
           /\ ~last'.raised
           /\ stats' = [stats EXCEPT ![last'.new] = @ + 1]
           /\ processed_ids' = processed_ids \cup {last'.topic}
           /\ last_action'.topic_id = last'.topic
           /\ last_action'.new_status = last'.new)]_vars

C3_Witness ==
    /\ last.op = "decide" /\ last.wrote /\ last.audit_failed /\ ~last.raised
    /\ store[last.topic] = last.new
    /\ last.topic \in processed_ids
    /\ stats[last.new] = 1
    /\ last_action.topic_id = last.topic

\* C4: the fetch-check-write step of one transition is attempted at most 3
\* times, stops at the first attempt that does not fail, sleeps 1 and then 2
\* between attempts, and raises to the caller after the third failure.
C4_RetryThreeTimes ==
    (last.op = "decide")
    => (/\ last.attempts \in 1..3
        /\ last.delays = SubSeq(<<1, 2>>, 1, last.attempts - 1)
        /\ last.raised <=> last.fails = 3
        /\ ~last.raised => last.fails = last.attempts - 1)

C4_Witness ==
    /\ last.op = "decide" /\ last.raised
    /\ last.attempts = 3 /\ last.fails = 3 /\ last.delays = <<1, 2>>

\* C5: a transition (approve, reject or defer) that finds the persisted
\* status no longer pending overwrites it only after the operator was asked
\* the override question and answered yes.
C5_NoSilentOverwrite ==
    (last.op = "decide" /\ last.wrote /\ last.cur # "pending")
    => last.confirmed

\* C6: a confirmed undo right after approving a pending topic sets the
\* topic's persisted status back to pending, lowers the approved counter by
\* one and leaves the ledger as it is.
C6_UndoApprove ==
    [][(/\ last.op = "decide" /\ last.new = "approved" /\ last.wrote
        /\ last.cur = "pending"
        /\ last'.op = "undo" /\ last'.confirmed /\ last'.wrote)
       => (/\ store'[last.topic] = "pending"
           /\ stats'.approved = stats.approved - 1
           /\ audit' = audit)]_vars

\* C7: a confirmed undo sets the topic's persisted status to the value the
\* store held right before the undone transition wrote, not to the value
\* seen when the batch was fetched.
C7_UndoRestoresStoreValue ==
    [][(/\ last.op = "decide" /\ last.wrote
        /\ last'.op = "undo" /\ last'.confirmed /\ last'.wrote)
       => store'[last.topic] = last.cur]_vars

\* C8: no topic whose id was in the processed set loaded from the session
\* file is in the batch presented for review, whatever its persisted status.
C8_LoadedIdsNotPresented ==
    Ids(topics) \cap loaded_ids = {}

C8_Witness ==
    /\ pc = "loop" /\ last.op = "start"
    /\ loaded_ids # {}
    /\ \E t \in loaded_ids : store[t] = topics[1].status

\* C9: whenever a session that loaded topics has ended, the session file
\* holds the reviewer's current processed ids, counters and last action.
C9_EndsSaved ==
    (pc = "ended" /\ topics # <<>>)
    => session_file = <<SessionData(processed_ids, stats, last_action)>>

\* C10: with a ceiling of 0.01 USD, the estimate of 0.002 USD per topic and
\* a batch of 10 topics scored with the LLM, score_topics never holds more
\* than 5 scores and returns without raising.
C10_CostGuardStops ==
    (job.n = 10 /\ job.ceiling = 100 /\ job.use_llm)
    => (Len(job.scores) <= 5 /\ ~job.raised)

C10_Witness ==
    /\ job.pc = "returned" /\ job.n = 10 /\ job.ceiling = 100 /\ job.use_llm
    /\ job.stopped = "pre"

\* Range of a sequence.
Range(seq) == {seq[i] : i \in 1..Len(seq)}

\* C11: when the cost guard has stopped a scoring run, every topic scored in
\* that run before the stop, the one whose cost was added last included, is
\* in the list score_topics returns (the list run saves).
C11_StoppedRunKeepsScored ==
    (job.pc = "returned" /\ job.stopped \in {"pre", "post"})
    => Range(job.scored) \subseteq Range(job.scores)

\* This step is a call of the scoring service named op.
ServiceCall(op) == svc'.last # svc.last /\ svc'.last.op = op

\* C12: once score_topic_async has scored a topic through the LLM path, a
\* second score_topic_async of the same topic (same id and title) less than
\* 24 hours later makes no chat call and returns the earlier audience fit
\* and integrity penalty.
C12_SecondRunReusesResult ==
    [][(/\ svc.last.op = "score_topic_async"
        /\ svc.last.r.fit.reasoning[2] = "llm"
        /\ ServiceCall("score_topic_async")
        /\ svc'.last.llm
        /\ svc'.last.topic = svc.last.topic
        /\ svc'.last.at - svc.last.at < CacheHours)
       => (/\ svc'.last.r.calls = 0
           /\ svc'.last.r.fit.value = svc.last.r.fit.value
           /\ svc'.last.r.penalty.value = svc.last.r.penalty.value)]_vars

\* The audience-fit call failed: no service, an exception, content that is
\* not JSON, or a reply whose score is missing or no number.  (A JSON
\* boolean is a number to isinstance and is taken as a score.)
FitCallFails(reply) ==
    reply.kind # "json" \/ reply.v.type \in {"absent", "str"}

C14_PenaltyInRange ==
    (svc.last.op \in {"calculate_integrity_penalty",
                      "calculate_integrity_penalty_async"})
    => (/\ svc.last.r.penalty.value.type = "num"
        /\ svc.last.r.penalty.value.val \in (0 - 50)..0)

\* C15: for components in their ranges and any weight vector the service
\* was given, calculate_composite_score does not raise and returns a value
\* in [0, 1].
C15_CompositeInUnitRange ==
    (svc.last.op = "calculate_composite_score")
    => (~svc.last.r.raised /\ svc.last.r.score \in 0..10000)

\* C16: calculate_composite_score, score_topic and score_topic_async leave
\* the service's weights as they were, also when they normalise them for
\* the calculation.
C16_WeightsUnchanged ==
    [][(\/ ServiceCall("calculate_composite_score")
        \/ ServiceCall("score_topic")
        \/ ServiceCall("score_topic_async"))
       => svc'.weights = svc.weights]_vars

C16_Witness ==
    /\ svc.last.op = "score_topic"
    /\ svc.last.r.normalised
    /\ ~svc.last.r.raised
    /\ WeightSum(svc.weights) = 150

\* The engagement values of the topic's platform in the list handed over.
PeerEngagements(call) ==
    LET peers == PlatformTopics(call.all_topics, call.topic.platform)
    IN  [i \in 1..Len(peers) |-> ExtractEngagement(peers[i])]

\* The call was made in percentile mode for a topic of the list, on at
\* least two same-platform topics with pairwise distinct engagement.
DistinctPeers(call) ==
    LET es == PeerEngagements(call)
    IN  /\ call.op = "calculate_velocity"
        /\ Len(es) >= 2
        /\ \A i, j \in 1..Len(es) : i # j => es[i] # es[j]
        /\ \E i \in 1..Len(call.all_topics) : call.all_topics[i] = call.topic

\* C17: in percentile mode, among N >= 2 same-platform topics with pairwise
\* distinct engagement, calculate_velocity returns exactly 1.0 for the one
\* with the most engagement and exactly 0.0 for the one with the least.
C17_PercentileEnds ==
    DistinctPeers(svc.last)
    => LET es == PeerEngagements(svc.last)
           e  == ExtractEngagement(svc.last.topic)
       IN  /\ (\A i \in 1..Len(es) : es[i] <= e) => svc.last.r.score = 10000
           /\ (\A i \in 1..Len(es) : es[i] >= e) => svc.last.r.score = 0

C17_Witness ==
    /\ DistinctPeers(svc.last)
    /\ Len(PeerEngagements(svc.last)) = 3
    /\ ExtractEngagement(svc.last.topic) = 99
    /\ svc.last.r.score = 10000

\* This step is the step `op` on the topic documents.
StoreStep(op) == db' # db /\ db'.last.op = op

\* C18: save_topics never writes a document whose id is already in the
\* store, so a stored topic is never changed and a reviewed topic's status
\* never set back to pending by ingestion, however ingestion runs and
\* status transitions interleave.
C18_IngestNeverOverwrites ==
    [][StoreStep("save_write") => db.docs[db'.last.id] = NoDoc]_vars

\* C19: the topics presented in a topic review session are in the order of
\* their latest composite score, highest first.
C19_PresentedByScore ==
    (db.last.op = "fetch")
    => \A i, j \in 1..Len(db.last.presented) :
          i < j => db.scores[db.last.presented[i]]
                   >= db.scores[db.last.presented[j]]

\* C20: ReviewService.update_topic_status without a transaction changes only
\* the status field: every other field of the stored document keeps the
\* value it had.
C20_OnlyStatusChanges ==
    [][(StoreStep("update_topic_status") /\ ~db'.last.transaction)
       => LET before == db.docs[db'.last.id]
              after  == db'.docs[db'.last.id]
          IN  \A f \in DOMAIN before \ {"status"} :
                 f \in DOMAIN after /\ after[f] = before[f]]_vars

\* What a call to `op` of the ingestion service left.
Ingested(op) == ing.last.op = op /\ ~ing.last.raised

\* The existing topic e has the URL of the raw topic t.
SameUrl(t, e) ==
    ~t.source_url.none /\ ~e.source_url.none
    /\ t.source_url.v = e.source_url.v

\* The existing topic e has the title of the raw topic t, both lower-cased
\* and stripped.
SameTitle(t, e) ==
    ~e.title.none /\ Strip(Lower(t.title)) = Strip(Lower(e.title.v))

\* C21 as written: filter_duplicates returns, in input order, exactly the
\* input topics whose URL equals the URL of no existing topic and whose
\* normalised title equals the normalised title of no existing topic, and
\* with pre-fetched existing topics it makes no store query.
C21_KeepsExactlyTheNew ==
    Ingested("filter_duplicates") =>
        /\ ing.last.result = SelectSeq(ing.all_raw_topics,
              LAMBDA t : \A i \in 1..Len(ing.last.existing) :
                  /\ ~SameUrl(t, ing.last.existing[i])
                  /\ ~SameTitle(t, ing.last.existing[i]))
        /\ ~ing.existing_topics.none => ing.last.queries = 0

\* C21 amended: an input topic with an empty URL is not compared by URL;
\* filter_duplicates returns, in input order, exactly the input topics
\* whose URL is empty or absent or equals the URL of no existing topic, and
\* whose normalised title equals the normalised title of no existing topic;
\* with pre-fetched existing topics it makes no store query.
C21_KeepsNewAndUrlless ==
    Ingested("filter_duplicates") =>
        /\ ing.last.result = SelectSeq(ing.all_raw_topics,
              LAMBDA t : \A i \in 1..Len(ing.last.existing) :
                  /\ ~(t.source_url.v # ""
                       /\ SameUrl(t, ing.last.existing[i]))
                  /\ ~SameTitle(t, ing.last.existing[i]))
        /\ ~ing.existing_topics.none =>
              /\ ing.last.queries = 0
              /\ ing.last.existing = ing.existing_topics.v

\* A call with pre-fetched topics dropped one input topic for its URL and
\* one for its title and kept a third.
C21_Witness ==
    /\ Ingested("filter_duplicates")
    /\ ~ing.existing_topics.none
    /\ Len(ing.all_raw_topics) >= 2
    /\ Len(ing.last.result) = 1
    /\ \E i \in 1..Len(ing.all_raw_topics), j \in 1..Len(ing.last.existing) :
          /\ SameUrl(ing.all_raw_topics[i], ing.last.existing[j])
          /\ ~SameTitle(ing.all_raw_topics[i], ing.last.existing[j])
    /\ \E i \in 1..Len(ing.all_raw_topics), j \in 1..Len(ing.last.existing) :
          /\ ~SameUrl(ing.all_raw_topics[i], ing.last.existing[j])
          /\ SameTitle(ing.all_raw_topics[i], ing.last.existing[j])
          /\ ing.all_raw_topics[i].title # ing.last.existing[j].title.v

\* Two raw topics with the same platform, title and published timestamp,
\* in a process whose local time zone is tz.
SameIdentity(a, b, tz) ==
    /\ a.source_platform = b.source_platform
    /\ a.title = b.title
    /\ Timestamp(a.published_at, tz) = Timestamp(b.published_at, tz)

\* C22: two calls of _generate_topic_id on raw topics with the same
\* platform, title and published timestamp return the identical ID.
C22_SameInputSameId ==
    (/\ Ingested("_generate_topic_id")
     /\ ing.last.earlier # <<>>
     /\ SameIdentity(ing.last.raw_topic, ing.last.earlier[1].raw_topic,
                     ing.tz))
    => ing.last.id = ing.last.earlier[1].id

\* The second of two calls on raw topics that agree in platform, title and
\* timestamp and differ in their URL has returned.
C22_Witness ==
    /\ Ingested("_generate_topic_id")
    /\ ing.last.earlier # <<>>
    /\ SameIdentity(ing.last.raw_topic, ing.last.earlier[1].raw_topic,
                    ing.tz)
    /\ ing.last.raw_topic.source_url # ing.last.earlier[1].raw_topic.source_url
    /\ ing.last.id = GenerateTopicId(ing.last.raw_topic, ing.tz)

\* Two topics that differ in nothing but created_at.
OnlyAgeDiffers(a, b) == [a EXCEPT !.age = 0] = [b EXCEPT !.age = 0]

\* C23: of two topics identical except for age the younger one's recency
\* is strictly greater; recency is 0.5 at 24 hours; a missing or future
\* timestamp gives 1.0.  Ages are those of timestamps not in the future.
C23_YoungerScoresHigher ==
    svc.last.op = "calculate_recency" =>
        /\ \A i \in 1..Len(svc.last.earlier) :
              LET old == svc.last.earlier[i]
              IN  (/\ OnlyAgeDiffers(svc.last.topic, old.topic)
                   /\ svc.last.topic.dated
                   /\ 0 <= svc.last.topic.age
                   /\ svc.last.topic.age < old.topic.age)
                  => FloatGreater(svc.last.r.recency, old.r.recency)
        /\ (svc.last.topic.dated /\ svc.last.topic.age = 24)
              => svc.last.r.recency = Pow2Neg(1)
        /\ (~svc.last.topic.dated \/ svc.last.topic.age < 0)
              => svc.last.r.recency = Pow2Neg(0)

\* C24: when the operator declines the override question of an approve or
\* reject on a non-pending topic, the persisted status, the ledger, the
\* counters, the processed ids and the last undoable action stay as they
\* were.
C24_DeclineChangesNothing ==
    [][(last'.op = "decide" /\ last'.declined)
       => (/\ store' = store
           /\ audit' = audit
           /\ stats' = stats
           /\ processed_ids' = processed_ids
           /\ last_action' = last_action)]_vars

\* C25: undo is one level deep.  The action undo can revert is always the
\* most recent transition of this session that wrote its status: only such
\* a transition becomes the last action, and each one does.  An undo
\* either changes nothing or reverts that one topic and clears the last
\* action, so that a further undo with no transition in between changes
\* neither the store, the counters nor the processed set.
C25_UndoOneLevel ==
    [][/\ (last_action' # last_action /\ last_action' # NoAction)
            => (/\ last'.op = "decide" /\ last'.wrote
                /\ last_action'.topic_id = last'.topic
                /\ last_action'.new_status = last'.new)
       /\ (last'.op = "decide" /\ last'.wrote)
            => (/\ last_action'.topic_id = last'.topic
                /\ last_action'.new_status = last'.new)
       /\ last'.op = "undo"
            => (/\ \A t \in TopicIds :
                      store'[t] # store[t] => t = last_action.topic_id
                /\ last_action = NoAction
                      => (/\ store' = store /\ stats' = stats
                          /\ processed_ids' = processed_ids)
                /\ \/ (/\ store' = store /\ stats' = stats
                       /\ processed_ids' = processed_ids
                       /\ last_action' = last_action)
                   \/ last_action' = NoAction)]_vars

\* A transition whose three attempts all failed has just been handled.
AllAttemptsFailed == last'.op = "decide" /\ last'.raised

C27_CountersMatchProcessed ==
    (pc # "new" /\ loaded_ids = {})
    => (/\ stats.approved + stats.rejected + stats.deferred
              = Cardinality(processed_ids)
        /\ \A k \in DOMAIN stats : stats[k] >= 0)

C29_OverEstimateScoresNothing ==
    (job.use_llm /\ estimated_cost_per_topic * job.n > job.ceiling)
    => (/\ job.called = <<>>
        /\ job.scores = <<>>
        /\ job.total_cost = 0
        /\ ~job.raised
        /\ job.pc = "returned" => job.stopped = "pre")

\* A run over 8 topics under a ceiling of 0.015 USD has returned.
C29_Witness ==
    /\ job.use_llm /\ job.pc = "returned" /\ job.stopped = "pre"
    /\ job.n = 8 /\ job.ceiling = 150
    /\ job.scores = <<>> /\ job.called = <<>>

\* lines 625-632: normalized_weights, the weights the weighted sum of lines
\* 635-639 is taken with
AppliedWeights(weights) ==
    IF NeedsNormalising(weights) THEN Normalised(weights) ELSE weights

\* C30: the weights recorded in a score result are the weights that were
\* applied to the components in the composite calculation, also when the
\* configured weights do not sum to about 1.
C30_RecordedWeightsApplied ==
    (svc.last.op \in {"score_topic", "score_topic_async"}
     /\ ~svc.last.r.raised)
    => svc.last.r.weights = AppliedWeights(svc.weights)

\* C31: for any topic and any peer list holding at least two topics of the
\* topic's platform, whether or not the list contains the topic itself, the
\* velocity calculate_velocity returns in percentile mode,
\* rank / (peer_count - 1), lies within [0, 1] (0..10000 in units of 0.0001).
C31_PercentileInUnitRange ==
    (/\ svc.last.op = "calculate_velocity"
     /\ Len(PeerEngagements(svc.last)) >= 2)
    => svc.last.r.score \in 0..10000

\* C32: every topic scored in one score_topics call is scored against the
\* same peer set, the complete batch passed to the call, also when the cost
\* guard stops the run early or some topics fail; and all scores the call
\* returns carry the same run identifier, the one drawn for the call.
C32_WholeBatchOneRun ==
    /\ Len(job.peers) = Len(job.called)
    /\ \A k \in 1..Len(job.peers) :
          /\ Len(job.peers[k]) = job.n
          /\ Range(job.peers[k]) = 1..job.n
    /\ Len(job.run_ids) = Len(job.scores)
    /\ \A k \in 1..Len(job.run_ids) :
          job.run_ids[k] = job.run_id /\ job.run_id \in RunIds

\* A run over several topics was stopped early by the cost guard after a
\* topic had failed and two had been scored.
C32_Witness ==
    /\ job.pc = "returned" /\ job.stopped \in {"pre", "post"}
    /\ job.failures # <<>>
    /\ Len(job.scores) >= 2 /\ Len(job.peers) >= 3
    /\ Len(job.called) < job.n

\* A session has saved its state on quit and none was started since.
SavedOnQuit == pc = "ended" /\ exit = "quit"

\* C33: after a session saved its state on quit, a new session resumed from
\* the session file starts with the same processed-ID set and the same
\* counters as at the save; and when a resumed session quits, resuming again
\* from the file name it was resumed from sees its updated progress.
C33_ResumeSeesSavedProgress ==
    [][(/\ SavedOnQuit
        /\ sess'.sessions = sess.sessions + 1
        /\ exit' # "no_terminal"
        /\ \/ sess'.resume_file = SessionFileName
           \/ sess.loaded /\ sess'.resume_file = sess.resume_file)
       => (processed_ids' = processed_ids /\ stats' = stats)]_vars

\* C34: during one transition (one call of _update_topic_status) the
\* operator is asked the override question at most once: after a confirmed
\* override, a failed status write followed by a retry does not ask again.
C34_OverrideAskedOnce ==
    last.op = "decide" => last.prompts <= 1

\* review_utils.py lines 197-202: the items reviewed, as the summary counts
\* them
TotalReviewed(st) == st.approved + st.rejected + st.deferred + st.skipped

\* C35: session state is saved whenever the number of items reviewed in the
\* session reaches a multiple of 10, whatever page navigation, back, skip
\* or undo actions occurred in between.
C35_SavedEveryTenReviewed ==
    [][(/\ TotalReviewed(stats') > TotalReviewed(stats)
        /\ TotalReviewed(stats') % AutoSaveEvery = 0)
       => session_file' = <<SessionData(processed_ids', stats', last_action')>>]_vars

\* The save call under way has met a failed write and a later item of its
\* list that it wrote.
WroteAfterFailure ==
    \E f \in Range(saves.call.failed), w \in Range(saves.call.written) : f < w

\* C36: a failure on one item of a batch does not stop the batch.  In
\* score_topics a topic whose scoring raises is skipped and the loop goes on
\* to the remaining topics; in save_topics and save_scores a failed write is
\* skipped, later items are still written, and the count returned is the
\* number of writes that succeeded.
C36_FailureDoesNotStopBatch ==
    /\ [](/\ ~job.raised
          /\ (job.pc = "returned" /\ job.n > 0 /\ job.stopped = "end")
                => (Range(job.scores) \cup Range(job.failures) = 1..job.n)
          /\ saves.call.saved_count = Len(saves.call.written)
          /\ (saves.call.pc = "returned")
                => (Range(saves.call.written) \cup Range(saves.call.failed)
                       \cup Range(saves.call.skipped)
                    = 1..Len(saves.call.items))
          /\ (saves.call.pc = "returned" /\ saves.call.fn = "save_topics")
                => (\A k \in Range(saves.call.written) :
                       saves.call.items[k] \in saves.candidates)
          /\ (saves.call.pc = "returned" /\ saves.call.fn = "save_scores")
                => (\A k \in Range(saves.call.written) :
                       \E id \in ScoreIds :
                          saves.topic_scores[id]
                             = ToFirestoreDict(saves.call.items[k])))
    /\ [][/\ (job.pc = "loop" /\ job'.failures # job.failures
                /\ job.i < job.n)
               => (job'.pc = "loop" /\ job'.i = job.i + 1
                   /\ job'.scores = job.scores)
          /\ (saves.call.pc = "loop"
                /\ saves'.call.failed # saves.call.failed
                /\ saves.call.i < Len(saves.call.items))
               => (saves'.call.pc = "loop"
                   /\ saves'.call.i = saves.call.i + 1
                   /\ saves'.call.saved_count = saves.call.saved_count)]_vars

\* A scoring run skipped its first topic and scored the second, and a
\* save_scores call has returned 1 after its first write failed and its
\* second succeeded.
C36_Witness ==
    /\ job.pc = "returned" /\ job.failures = <<1>> /\ job.scores = <<2>>
    /\ saves.call.fn = "save_scores" /\ saves.call.pc = "returned"
    /\ saves.call.failed = <<1>> /\ saves.call.written = <<2>>
    /\ saves.call.saved_count = 1
    /\ WroteAfterFailure

\* C37: a job run tracked by track_job_run is never left in status running
\* once the tracked block has ended: it is recorded as completed if and only
\* if the block finished without an exception, and as failed with the
\* exception re-raised to the caller otherwise, also when a write of the
\* job-run record itself fails.
C37_NeverLeftRunning ==
    tracker.pc = "ended"
    => LET recorded == tracker.job_runs[tracker.run_id]
       IN  /\ recorded # "running"
           /\ recorded = "completed" <=> tracker.block = "ok"
           /\ tracker.block # "ok" => (recorded = "failed" /\ tracker.raised)

\* models.py lines 105-106: datetime.fromisoformat of a stored created_at
FromIsoFormat(str) ==
    [s |-> str[1] - 48,
     us |-> IF Len(str) >= 3 /\ str[2] = 46 THEN str[3] - 48 ELSE 0]

\* instant a is after instant b
After(a, b) == a.s > b.s \/ (a.s = b.s /\ a.us > b.us)

\* The scores of topic_id that save_scores calls wrote, oldest first.
SavedScores(topic_id) ==
    SelectSeq(saves.log, LAMBDA score : score.topic_id = topic_id)

\* C38: score snapshots are append-only.  save_scores writes every score
\* under a fresh document id, so no step overwrites or removes a snapshot; a
\* topic scored in k saved runs has k snapshots; and the score _fetch_scores
\* joins to a topic is the snapshot with the greatest creation timestamp.
C38_SnapshotsAppendOnly ==
    /\ [](\A t \in TopicIds :
            LET mine == SnapshotsOf(saves.topic_scores, t)
                runs == {SavedScores(t)[k].run_id :
                            k \in 1..Len(SavedScores(t))}
            IN  /\ Cardinality(mine) = Len(SavedScores(t))
                /\ Cardinality(mine) = Cardinality(runs)
                /\ (saves.fetched /\ saves.joined[t] # 0)
                      => /\ saves.joined[t] \in mine
                         /\ \A other \in mine :
                               ~After(FromIsoFormat(
                                         saves.topic_scores[other].created_at),
                                      FromIsoFormat(
                                         saves.topic_scores[saves.joined[t]]
                                            .created_at)))
    /\ [][\A id \in ScoreIds :
             saves.topic_scores[id] # NoSnapshot
             => saves'.topic_scores[id] = saves.topic_scores[id]]_vars

\* Two runs each saved a score of topic 1, the second made earlier in the
\* same second than the first, and the review joined the later one.
C38_Witness ==
    /\ saves.fetched /\ saves.joined[1] # 0
    /\ Len(SavedScores(1)) = 2
    /\ SavedScores(1)[1].created_at = [s |-> 1, us |-> 5]
    /\ SavedScores(1)[2].created_at = [s |-> 1, us |-> 0]
    /\ saves.topic_scores[saves.joined[1]].created_at = IsoFormat([s |-> 1, us |-> 5])
    /\ saves.topic_scores[saves.joined[1]].run_id = 1
====
